---- MODULE Spec2Model ----
(***************************************************************************)
(* The review-job queue (crates/server/src/queue.rs), the serial scheduler *)
(* (crates/server/src/scheduler.rs) and the operator's retry endpoint      *)
(* (crates/server/src/webhook/api.rs), over a key-value store holding the  *)
(* pending list, the processing hash and the failed list, and an           *)
(* orchestrator holding the workloads.                                     *)
(*                                                                         *)
(* Every store command and every orchestrator call may answer with an      *)
(* error (the code handles each Result); the server process, which runs    *)
(* the scheduler and the HTTP handlers, may crash and restart.  Timestamps *)
(* (created_at, failed_at) are carried unchanged and are left out.         *)
(***************************************************************************)
EXTENDS Integers, Sequences, FiniteSets, TLC

\* ---------------------------------------------------------------- bounds
\* Queue Items enqueued in a behaviour: pushes plus retries.
MaxEnqueue == 3

\* Token pairs the token endpoint issues in a behaviour.
MaxExchange == 3

\* Jobs the webhook and API handlers enqueue in a behaviour.
MaxWebPush == 2

\* Entries of the failed list when list_failed is called.
MaxFailed == 3

\* Items pushed while the scheduler is followed from its start to its stop.
MaxRunItems == 2

\* ------------------------------------------------------ program constants
WaitTimeoutSecs == 900
PollSleepSecs == 5
NotFoundThreshold == 3
ExpiryBufferSecs == 300
MAX_RETRIES == 3
INITIAL_BACKOFF_SECS == 1

\* The instants (seconds since wait_for_job started) at which a poll can
\* take place in the model: the first polls, the last instant within the
\* budget and the first one beyond it.
TimePoints == {0, PollSleepSecs, WaitTimeoutSecs, WaitTimeoutSecs + PollSleepSecs}

\* Concurrent requests to /api/retry/{id}.
Handlers == {"h1", "h2"}

NoItem == [id |-> 0]
DecodeErr == [err |-> "decode"]

\* Option<T>
None == [some |-> FALSE]
Some(v) == [some |-> TRUE, v |-> v]

\* ------------------------------------------------------------- envelopes
\* A Job Envelope: the variant and the fields of its payload struct.
Payloads ==
    { [variant |-> "Review", fields |-> [mr_iid |-> "42", action |-> "open"]],
      [variant |-> "SentryFix", fields |-> [short_id |-> "WEB-1"]] }

\* The envelope of the n-th request: consecutive requests carry different ones.
PayloadsFor(n) == {p \in Payloads : (p.variant = "Review") <=> (n % 2 = 1)}

TagOf(variant) ==
    CASE variant = "Review" -> "review"
      [] variant = "SentryFix" -> "sentry_fix"
      [] variant = "JiraTicket" -> "jira_ticket"

RequiredFields(variant) ==
    CASE variant = "Review" -> {"mr_iid"}
      [] variant = "SentryFix" -> {"short_id"}
      [] variant = "JiraTicket" -> {"issue_key"}

\* #[serde(tag = "type")]: the struct's fields plus a "type" field.
PayloadToJson(p) ==
    [x \in DOMAIN p.fields \cup {"type"} |->
        IF x = "type" THEN TagOf(p.variant) ELSE p.fields[x]]

\* #[serde(default = "default_action")]: the fields that may be missing, with
\* the values they then take.
DefaultFields(variant) ==
    IF variant = "Review" THEN [x \in {"action"} |-> "open"] ELSE <<>>

\* The derived Deserialize of a payload struct: every required field must be
\* there, a missing defaulted field takes its default, any other field of
\* the object (the "type" tag among them) is ignored.
ParseStruct(variant, json) ==
    IF RequiredFields(variant) \subseteq DOMAIN json
    THEN [variant |-> variant,
          fields |-> [x \in RequiredFields(variant) \cup DOMAIN DefaultFields(variant) |->
                        IF x \in DOMAIN json THEN json[x] ELSE DefaultFields(variant)[x]]]
    ELSE DecodeErr

ParseTagged(json) ==
    CASE json["type"] = "review" -> ParseStruct("Review", json)
      [] json["type"] = "sentry_fix" -> ParseStruct("SentryFix", json)
      [] json["type"] = "jira_ticket" -> ParseStruct("JiraTicket", json)
      [] OTHER -> DecodeErr

\* A decoder that tries the tagged parse for reviews only.
PayloadFromJson_ReviewOnly(json) ==
    IF "type" \in DOMAIN json /\ json["type"] = "review"
    THEN ParseTagged(json)
    ELSE ParseStruct("Review", json)

\* A decoder that falls back to the legacy parse when the tagged parse fails.
PayloadFromJson_Fallback(json) ==
    IF "type" \in DOMAIN json /\ ParseTagged(json) # DecodeErr
    THEN ParseTagged(json)
    ELSE ParseStruct("Review", json)

PayloadFromJson(json) ==
    IF "type" \in DOMAIN json
    THEN ParseTagged(json)
    ELSE ParseStruct("Review", json)

IssueId(p) ==
    CASE p.variant = "Review" -> p.fields.mr_iid
      [] p.variant = "SentryFix" -> p.fields.short_id
      [] p.variant = "JiraTicket" -> p.fields.issue_key

\* ------------------------------------------------------------ queue items
NewQueueItem(id, payload) == [id |-> id, payload |-> payload, attempts |-> 0]

ItemToJson(item) ==
    [id |-> item.id, payload |-> PayloadToJson(item.payload), attempts |-> item.attempts]

ItemFromJson(json) ==
    [id |-> json.id, payload |-> PayloadFromJson(json.payload), attempts |-> json.attempts]

\* item.attempts += 1; FailedItem { item, error, failed_at }
NewFailedItem(item, error) ==
    [item |-> [item EXCEPT !.attempts = @ + 1], error |-> error]

FailedToJson(f) == [item |-> ItemToJson(f.item), error |-> f.error]

FailedFromJson(json) == [item |-> ItemFromJson(json.item), error |-> json.error]

\* serde_json::from_str::<QueueItem> answers Ok: the payload is one that the
\* Deserialize of JobPayload accepts.
ItemDecodes(json) == PayloadFromJson(json.payload) # DecodeErr

\* ---------------------------------------------------------- store commands
\* RPUSH key v
ListPush(list, v) == Append(list, v)

\* RPOP instead of LPOP.
ListPopValue_Right(list) == list[Len(list)]

\* BLPOP key: the value returned
ListPopValue(list) == Head(list)

\* BLPOP key: the list left behind
ListPopRest(list) == Tail(list)

\* HSET key field v
HashSet(h, k, v) == [x \in DOMAIN h \cup {k} |-> IF x = k THEN v ELSE h[x]]

\* An HDEL that removes nothing.
HashDel_Keep(h, k) == h

\* HDEL key field
HashDel(h, k) == [x \in DOMAIN h \ {k} |-> h[x]]

FirstIndex(list, v) ==
    IF \E i \in 1..Len(list) : list[i] = v
    THEN CHOOSE i \in 1..Len(list) : list[i] = v /\ \A j \in 1..(i - 1) : list[j] # v
    ELSE 0

\* An LREM that removes nothing.
ListRemFirst_Keep(list, v) == list

\* LREM key 1 v: removes the first element equal to v, if any
ListRemFirst(list, v) ==
    LET i == FirstIndex(list, v) IN
    IF i = 0 THEN list
    ELSE SubSeq(list, 1, i - 1) \o SubSeq(list, i + 1, Len(list))

\* The first entry of the scanned failed list whose item id is `id`, or 0.
ScanFailed(items, id) ==
    IF \E i \in 1..Len(items) : FailedFromJson(items[i]).item.id = id
    THEN CHOOSE i \in 1..Len(items) :
            /\ FailedFromJson(items[i]).item.id = id
            /\ \A j \in 1..(i - 1) : FailedFromJson(items[j]).item.id # id
    ELSE 0

\* ------------------------------------------------------------ orchestrator
\* format!("claude-review-{}-{}", mr_iid, &item.id[..8])
JobName(item) == <<"claude-review", IssueId(item.payload), item.id>>

\* status.active.unwrap_or(0) > 0
IsActive(status) == status = "active"

ActiveJobs(js) == {n \in DOMAIN js : IsActive(js[n])}

\* jobs_api.create: a workload without pods yet
JobsWith(js, n) == [x \in DOMAIN js \cup {n} |-> IF x = n THEN "created" ELSE js[x]]

\* jobs_api.delete, ttlSecondsAfterFinished
JobsWithout(js, n) == [x \in DOMAIN js \ {n} |-> js[x]]


\* -------------------------------------------------------------------- state
VARIABLES
    pending,        \* store: list of serialized Queue Items
    processing,     \* store: hash id -> serialized Queue Item
    failed,         \* store: list of serialized Failed Items
    jobs,           \* orchestrator: workload name -> status
    pc,             \* scheduler: position in Scheduler::run
    cur,            \* scheduler: the item popped in this iteration
    errmsg,         \* scheduler: the error handed to mark_failed
    elapsed,        \* wait_for_job: start.elapsed()
    nfc,            \* wait_for_job: not_found_count
    hpc,            \* retry_failed call of each handler: position
    hjson,          \* retry_failed call of each handler: the matched entry
    hremoved,       \* history: entries the LREM of each handler's call removed
    nextId,         \* the id the next push assigns
    pushedPayload,  \* history: the envelope given to push, by id
    popOrder,       \* history: ids in the order of their first pop
    retries,        \* history: retry_failed calls that re-queued an item
    orphaned,       \* history: ids left in processing by a crash or a failed HDEL
    running,        \* Scheduler.running
    stopped         \* history: Scheduler::stop has been called

\* The Jira token manager (crates/server/src/jira_token.rs).
VARIABLES
    cached_token,   \* JiraTokenManager.cached_token
    bootstrap,      \* JiraTokenManager.bootstrap_refresh_token
    secret,         \* the durable secret claude-agent-jira-tokens
    upstream,       \* the token endpoint: the refresh token it accepts, tokens issued
    now,            \* Instant::now()
    tpc,            \* each caller: position in get_access_token / force_refresh
    tloc,           \* each caller: the locals of refresh_and_cache_with_expiry
    tres,           \* each caller: what its last call returned
    persisted       \* history: access tokens written to the durable secret

tokenVars == <<cached_token, bootstrap, secret, upstream, now, tpc, tloc, tres, persisted>>

\* The webhook and API handlers (crates/server/src/webhook/).
VARIABLES
    wpc,            \* each handler task: idle, or about to call queue.push
    wjob,           \* each handler task: the payload it built, the calls it made
    lastResp,       \* the response sent last
    branches,       \* the VCS platform: the fix branches that exist
    config,         \* AppState: which optional webhook secrets are set
    delivered       \* history: jobs enqueued by the Sentry/Jira webhooks, by issue

webVars == <<wpc, wjob, lastResp, branches, config, delivered>>

\* The functions of the server taken one call at a time.
VARIABLES
    arg,            \* the arguments of the call
    result          \* what it returned

callVars == <<arg, result>>

\* The Sentry API client (crates/server/src/sentry_api.rs).
VARIABLES
    cpc,            \* SentryClient::get: position
    attempt,        \* send_with_retry: the loop variable
    last_error,     \* send_with_retry: last_error
    sent,           \* what send_with_retry returned
    got,            \* what get returned
    clog            \* history: the requests sent with their answers, the sleeps

clientVars == <<cpc, attempt, last_error, sent, got, clog>>

\* The worker of a workload (crates/worker/src/main.rs).
VARIABLES
    wstep,          \* main: the step it is at
    exit_code,      \* the exit code of the process
    wdone           \* history: the steps that succeeded

workerVars == <<wstep, exit_code, wdone>>

\* What the queue, the scheduler and the retry endpoint leave alone.
otherVars == <<tokenVars, webVars, callVars, clientVars, workerVars>>

vars == <<pending, processing, failed, jobs, pc, cur, errmsg, elapsed, nfc, hpc, hjson, hremoved,
          nextId, pushedPayload, popOrder, retries, orphaned, running, stopped,
          tokenVars, webVars, callVars, clientVars, workerVars>>

storeVars == <<pending, processing, failed>>
schedVars == <<pc, cur, errmsg, elapsed, nfc, running, stopped>>
retryVars == <<hpc, hjson, hremoved>>
histVars == <<nextId, pushedPayload, popOrder, retries, orphaned>>

Ids == 1..(nextId - 1)

\* Enqueued so far, counting the retries under way.
Enqueued == (nextId - 1) + retries + Cardinality({h \in Handlers : hpc[h] # "idle"})

CanEnqueue == Enqueued < MaxEnqueue

EmptyHash == [x \in {} |-> 0]

\* ------------------------------------------------ token manager: the data
\* Tokens are opaque strings: the empty string, the bootstrap refresh token
\* supplied at startup, and the n-th pair issued by the token endpoint.
EmptyToken == [kind |-> "empty", n |-> 0]
BootstrapToken == [kind |-> "bootstrap", n |-> 0]
RefreshToken(n) == [kind |-> "refresh", n |-> n]
AccessToken(n) == [kind |-> "access", n |-> n]

\* Concurrent callers of get_access_token / force_refresh.
Callers == {"t1", "t2"}

\* expires_in of the token endpoint's answers.
ExpiresInValues == {3600}

\* cached_token: None
NoCache == [token |-> EmptyToken, expires_at |-> 0]

\* The durable secret does not exist.
NoSecret == [present |-> FALSE, access |-> EmptyToken, refresh |-> EmptyToken]

\* The secret exists, "refresh-token" missing or empty.
BlankSecret == [present |-> TRUE, access |-> EmptyToken, refresh |-> EmptyToken]

NoLocals == [refresh |-> EmptyToken, access |-> EmptyToken,
             new_refresh |-> EmptyToken, expires_in |-> 0, entry |-> "none"]

NoResult == [ok |-> FALSE, token |-> EmptyToken, error |-> "none"]
OkResult(token) == [ok |-> TRUE, token |-> token, error |-> "none"]
ErrResult(e) == [ok |-> FALSE, token |-> EmptyToken, error |-> e]

\* The instants of the model: the start, and around the moment at which a
\* token cached at the start has ExpiryBufferSecs left.
Clock ==
    {0} \cup UNION {{e - ExpiryBufferSecs - 1, e - ExpiryBufferSecs, e - ExpiryBufferSecs + 1} :
                    e \in ExpiresInValues}

\* JiraTokenManager::new, no call under way
TokenManagerNew ==
    /\ cached_token = NoCache
    /\ now = 0
    /\ tpc = [c \in Callers |-> "idle"]
    /\ tloc = [c \in Callers |-> NoLocals]
    /\ tres = [c \in Callers |-> NoResult]
    /\ persisted = {}

\* The deployment before the first refresh: the bootstrap token is the one
\* the token endpoint accepts.
TokenIdle ==
    /\ TokenManagerNew
    /\ bootstrap = BootstrapToken
    /\ secret = NoSecret
    /\ upstream = [valid |-> BootstrapToken, issued |-> 0]

\* ------------------------------------------------- web handlers: the data
\* Concurrent requests to the webhook and API routes.
WebTasks == {"w1", "w2"}

\* "api/review" stands for /api/review and /api/review/github, "api/stats"
\* for the read-only /api/stats and /api/failed.
Routes ==
    {"webhook/gitlab", "webhook/github", "webhook/sentry", "webhook/jira",
     "api/review", "api/sentry-fix", "api/jira-fix", "api/stats", "api/retry"}

\* Routes whose handler takes the body through the Json extractor.
JsonRoutes == {"api/review", "api/sentry-fix", "api/jira-fix"}

\* The issues of the model, as the tracker spells them.
SentryIssue == "WEB-1"
JiraIssue == "PROJ-1"

\* str::to_lowercase
ToLowercase(str) ==
    CASE str = "WEB-1" -> "web-1"
      [] str = "PROJ-1" -> "proj-1"
      [] str = "Alice" -> "alice"
      [] OTHER -> str

\* format!("sentry-fix/{}", short_id.to_lowercase())
FixBranch(prefix, short_id) == <<prefix, ToLowercase(short_id)>>

FixBranches == {FixBranch("sentry-fix", SentryIssue), FixBranch("jira-fix", JiraIssue)}

NoPayload == [variant |-> "none", fields |-> <<>>]
ReviewJob == [variant |-> "Review", fields |-> [mr_iid |-> "42", action |-> "open"]]
SentryFixJob == [variant |-> "SentryFix", fields |-> [short_id |-> SentryIssue]]
JiraTicketJob == [variant |-> "JiraTicket", fields |-> [issue_key |-> JiraIssue]]
\* The ReviewPayload of a failed pipeline: action "lint_fix".
LintFixJob == [variant |-> "Review", fields |-> [mr_iid |-> "42", action |-> "lint_fix"]]

\* Users that trigger pipelines, and the configured allowlists.
Users == {"alice", "Alice", "bob"}
Allowlists == {<<>>, <<"alice">>}

NoJob == [payload |-> NoPayload, calls |-> {}, webhook |-> FALSE]

\* Responses: status, body's "status" (or "error"), job_id (0: none) and the
\* calls to other services made while serving the request.
NoResp == [status |-> 0, kind |-> "none", job_id |-> 0, calls |-> {}]
Resp(status, kind, calls) == [status |-> status, kind |-> kind, job_id |-> 0, calls |-> calls]

\* A "queued" answer sent with 200.
Queued_As200(job_id, calls) ==
    [status |-> 200, kind |-> "queued", job_id |-> job_id, calls |-> calls]

\* queued(job_id): 202 ACCEPTED {"status": "queued", "job_id": ..}
Queued(job_id, calls) ==
    [status |-> 202, kind |-> "queued", job_id |-> job_id, calls |-> calls]

\* No request under way, no branch yet.
WebStart ==
    /\ wpc = [w \in WebTasks |-> "idle"]
    /\ wjob = [w \in WebTasks |-> NoJob]
    /\ lastResp = NoResp
    /\ branches = {}
    /\ delivered = [i \in {SentryIssue, JiraIssue} |-> 0]

\* All optional webhook secrets set.
WebIdle ==
    /\ WebStart
    /\ config = [sentry_webhook_secret |-> TRUE, jira_webhook_secret |-> TRUE,
                 allowed_authors |-> <<>>]

QueueInit ==
    /\ pending = <<>>
    /\ processing = EmptyHash
    /\ failed = <<>>
    /\ jobs = EmptyHash
    /\ pc = "start"
    /\ cur = NoItem
    /\ errmsg = ""
    /\ elapsed = 0
    /\ nfc = 0
    /\ hpc = [h \in Handlers |-> "idle"]
    /\ hjson = [h \in Handlers |-> NoItem]
    /\ hremoved = [h \in Handlers |-> 0]
    /\ nextId = 1
    /\ pushedPayload = <<>>
    /\ popOrder = <<>>
    /\ retries = 0
    /\ orphaned = {}
    /\ running = FALSE
    /\ stopped = FALSE

\* No call made so far.
NoCall == [fn |-> "none"]
CallIdle == arg = NoCall /\ result = NoCall

\* No worker has started.
WorkerIdle ==
    /\ wstep = "idle"
    /\ exit_code = -1
    /\ wdone = {}

\* Nothing returned so far.
NoAnswer == <<"none">>

\* No request to the Sentry API so far.
ClientIdle ==
    /\ cpc = "idle"
    /\ attempt = 0
    /\ last_error = None
    /\ sent = NoAnswer
    /\ got = NoAnswer
    /\ clog = <<>>

Init == QueueInit /\ TokenIdle /\ WebIdle /\ CallIdle /\ ClientIdle /\ WorkerIdle

\* ------------------------------------------------------------- Queue::push
PushOk(p) ==
    /\ CanEnqueue
    /\ pending' = ListPush(pending, ItemToJson(NewQueueItem(nextId, p)))
    /\ nextId' = nextId + 1
    /\ pushedPayload' = Append(pushedPayload, p)
    /\ UNCHANGED <<processing, failed, jobs, popOrder, retries, orphaned>>
    /\ UNCHANGED <<schedVars, retryVars>>
    /\ UNCHANGED otherVars

PushErr ==
    /\ CanEnqueue
    /\ UNCHANGED <<storeVars, jobs, schedVars, retryVars, histVars>>
    /\ UNCHANGED otherVars

\* ---------------------------------------------------------- Scheduler::run
\* "Starting scheduler": *self.running.lock().await = true
Start ==
    /\ pc = "start"
    /\ pc' = "check"
    /\ UNCHANGED <<cur, errmsg, elapsed, nfc>>
    /\ UNCHANGED <<storeVars, jobs, retryVars, histVars>>
    /\ running' = TRUE
    /\ UNCHANGED stopped
    /\ UNCHANGED otherVars

\* ---------------------------------------------- Scheduler::has_running_job
CheckRunning ==
    /\ pc = "check"
    /\ running
    /\ ActiveJobs(jobs) # {}
    /\ UNCHANGED vars

CheckIdle ==
    /\ pc = "check"
    /\ running
    /\ ActiveJobs(jobs) = {}
    /\ pc' = "pop"
    /\ UNCHANGED <<cur, errmsg, elapsed, nfc>>
    /\ UNCHANGED <<storeVars, jobs, retryVars, histVars>>
    /\ UNCHANGED <<running, stopped>>
    /\ UNCHANGED otherVars

CheckListErr ==
    /\ pc = "check"
    /\ running
    /\ pc' = "pop"
    /\ UNCHANGED <<cur, errmsg, elapsed, nfc>>
    /\ UNCHANGED <<storeVars, jobs, retryVars, histVars>>
    /\ UNCHANGED <<running, stopped>>
    /\ UNCHANGED otherVars

\* -------------------------------------------------------------- Queue::pop
PopSome ==
    /\ pc = "pop"
    /\ pending # <<>>
    /\ ItemDecodes(ListPopValue(pending))
    /\ LET item == ItemFromJson(ListPopValue(pending)) IN
        /\ cur' = item
        /\ popOrder' = IF \E k \in 1..Len(popOrder) : popOrder[k] = item.id
                       THEN popOrder ELSE Append(popOrder, item.id)
    /\ pending' = ListPopRest(pending)
    /\ pc' = "mark"
    /\ UNCHANGED <<processing, failed, jobs, errmsg, elapsed, nfc>>
    /\ UNCHANGED <<retryVars, nextId, pushedPayload, retries, orphaned>>
    /\ UNCHANGED <<running, stopped>>
    /\ UNCHANGED otherVars

\* BLPOP has taken the entry off the list and serde_json::from_str(&json)
\* answers Err: unwrap() panics, and the task that runs the scheduler ends.
PopPanic ==
    /\ pc = "pop"
    /\ pending # <<>>
    /\ ~ItemDecodes(ListPopValue(pending))
    /\ pending' = ListPopRest(pending)
    /\ pc' = "panicked"
    /\ UNCHANGED <<processing, failed, jobs, cur, errmsg, elapsed, nfc>>
    /\ UNCHANGED <<retryVars, histVars>>
    /\ UNCHANGED <<running, stopped>>
    /\ UNCHANGED otherVars

PopNone ==
    /\ pc = "pop"
    /\ pending = <<>>
    /\ pc' = "check"
    /\ UNCHANGED <<cur, errmsg, elapsed, nfc>>
    /\ UNCHANGED <<storeVars, jobs, retryVars, histVars>>
    /\ UNCHANGED <<running, stopped>>
    /\ UNCHANGED otherVars

PopErr ==
    /\ pc = "pop"
    /\ pc' = "check"
    /\ UNCHANGED <<cur, errmsg, elapsed, nfc>>
    /\ UNCHANGED <<storeVars, jobs, retryVars, histVars>>
    /\ UNCHANGED <<running, stopped>>
    /\ UNCHANGED otherVars

\* -------------------------------------------------- Queue::mark_processing
MarkProcessingOk ==
    /\ pc = "mark"
    /\ processing' = HashSet(processing, cur.id, ItemToJson(cur))
    /\ pc' = "spawn"
    /\ UNCHANGED <<pending, failed, jobs, cur, errmsg, elapsed, nfc>>
    /\ UNCHANGED <<retryVars, histVars>>
    /\ UNCHANGED <<running, stopped>>
    /\ UNCHANGED otherVars

\* `continue`: the iteration ends, the popped item is dropped
MarkProcessingErr ==
    /\ pc = "mark"
    /\ pc' = "check"
    /\ cur' = NoItem
    /\ UNCHANGED <<errmsg, elapsed, nfc>>
    /\ UNCHANGED <<storeVars, jobs, retryVars, histVars>>
    /\ UNCHANGED <<running, stopped>>
    /\ UNCHANGED otherVars

\* ----------------------------------------------------- Scheduler::spawn_job
SpawnOk ==
    /\ pc = "spawn"
    /\ JobName(cur) \notin DOMAIN jobs
    /\ jobs' = JobsWith(jobs, JobName(cur))
    /\ pc' = "wait"
    /\ elapsed' = 0
    /\ nfc' = 0
    /\ UNCHANGED <<cur, errmsg>>
    /\ UNCHANGED <<storeVars, retryVars, histVars>>
    /\ UNCHANGED <<running, stopped>>
    /\ UNCHANGED otherVars

\* create answers 409: a workload of that name exists
SpawnConflict ==
    /\ pc = "spawn"
    /\ JobName(cur) \in DOMAIN jobs
    /\ pc' = "fail_hdel"
    /\ errmsg' = "Spawn error"
    /\ UNCHANGED <<cur, elapsed, nfc>>
    /\ UNCHANGED <<storeVars, jobs, retryVars, histVars>>
    /\ UNCHANGED <<running, stopped>>
    /\ UNCHANGED otherVars

SpawnErr ==
    /\ pc = "spawn"
    /\ pc' = "fail_hdel"
    /\ errmsg' = "Spawn error"
    /\ UNCHANGED <<cur, elapsed, nfc>>
    /\ UNCHANGED <<storeVars, jobs, retryVars, histVars>>
    /\ UNCHANGED <<running, stopped>>
    /\ UNCHANGED otherVars

\* --------------------------------------------------- Scheduler::wait_for_job
\* JobStatus { active, succeeded, failed, .. }
JobStatus(a, s, f) == Some([active |-> a, succeeded |-> s, failed |-> f])

\* job.status as a poll can read it: none or all zero before the pod runs,
\* active = 1 while it runs, and succeeded = 1 or failed = 1 once it has
\* exited (backoff_limit 0, restart policy Never: one pod, one attempt).
PollStatuses(job) ==
    CASE job = "created" -> {None, JobStatus(0, 0, 0)}
      [] job = "active" -> {JobStatus(1, 0, 0)}
      [] job = "finished" -> {JobStatus(0, 1, 0), JobStatus(0, 0, 1)}
      [] job = "succeeded" -> {JobStatus(0, 1, 0)}
      [] job = "failed" -> {JobStatus(0, 0, 1)}

\* A poll that takes a running workload for a succeeded one.
EvaluateJobStatus_ActiveSucceeds(status) ==
    IF ~status.some THEN None
    ELSE IF status.v.succeeded > 0 \/ status.v.active > 0 THEN Some(TRUE)
    ELSE IF status.v.failed > 0 THEN Some(FALSE)
    ELSE None

\* What a poll that got the workload makes of its status: Some(TRUE) for
\* succeeded > 0, Some(FALSE) for failed > 0, None while neither is so.
EvaluateJobStatus(status) ==
    IF ~status.some THEN None
    ELSE IF status.v.succeeded > 0 THEN Some(TRUE)
    ELSE IF status.v.failed > 0 THEN Some(FALSE)
    ELSE None

\* Some status the poll can read of the workload of the current item is
\* evaluated to `outcome`.
Polled(outcome) ==
    \E status \in PollStatuses(jobs[JobName(cur)]) : EvaluateJobStatus(status) = outcome

\* A wait without a budget.
TimedOut_Never == FALSE

\* start.elapsed() > timeout
TimedOut == elapsed > WaitTimeoutSecs

\* tokio::time::sleep(5 s) and the next call take at least PollSleepSecs
Sleep == elapsed' \in {t \in TimePoints : t >= elapsed + PollSleepSecs}

\* start.elapsed() > timeout: delete the workload (the answer is ignored)
WaitTimeoutDeleteOk ==
    /\ pc = "wait"
    /\ TimedOut
    /\ jobs' = JobsWithout(jobs, JobName(cur))
    /\ pc' = "fail_hdel"
    /\ errmsg' = "Job failed"
    /\ UNCHANGED <<cur, elapsed, nfc>>
    /\ UNCHANGED <<storeVars, retryVars, histVars>>
    /\ UNCHANGED <<running, stopped>>
    /\ UNCHANGED otherVars

WaitTimeoutDeleteErr ==
    /\ pc = "wait"
    /\ TimedOut
    /\ pc' = "fail_hdel"
    /\ errmsg' = "Job failed"
    /\ UNCHANGED <<cur, elapsed, nfc>>
    /\ UNCHANGED <<storeVars, jobs, retryVars, histVars>>
    /\ UNCHANGED <<running, stopped>>
    /\ UNCHANGED otherVars

\* get answers Ok(job) with status.succeeded > 0
WaitSucceeded ==
    /\ pc = "wait"
    /\ ~TimedOut
    /\ JobName(cur) \in DOMAIN jobs
    /\ Polled(Some(TRUE))
    /\ pc' = "complete"
    /\ nfc' = 0
    /\ UNCHANGED <<cur, errmsg, elapsed>>
    /\ UNCHANGED <<storeVars, jobs, retryVars, histVars>>
    /\ UNCHANGED <<running, stopped>>
    /\ UNCHANGED otherVars

\* get answers Ok(job) with status.failed > 0
WaitFailed ==
    /\ pc = "wait"
    /\ ~TimedOut
    /\ JobName(cur) \in DOMAIN jobs
    /\ Polled(Some(FALSE))
    /\ pc' = "fail_hdel"
    /\ errmsg' = "Job failed"
    /\ nfc' = 0
    /\ UNCHANGED <<cur, elapsed>>
    /\ UNCHANGED <<storeVars, jobs, retryVars, histVars>>
    /\ UNCHANGED <<running, stopped>>
    /\ UNCHANGED otherVars

\* get answers Ok(job), neither succeeded nor failed: poll again
WaitStillRunning ==
    /\ pc = "wait"
    /\ ~TimedOut
    /\ JobName(cur) \in DOMAIN jobs
    /\ Polled(None)
    /\ nfc' = 0
    /\ Sleep
    /\ UNCHANGED <<pc, cur, errmsg>>
    /\ UNCHANGED <<storeVars, jobs, retryVars, histVars>>
    /\ UNCHANGED <<running, stopped>>
    /\ UNCHANGED otherVars

\* get answers 404
WaitNotFound ==
    /\ pc = "wait"
    /\ ~TimedOut
    /\ JobName(cur) \notin DOMAIN jobs
    /\ IF nfc + 1 >= NotFoundThreshold
       THEN /\ pc' = "fail_hdel"
            /\ errmsg' = "Job failed"
            /\ nfc' = nfc + 1
            /\ UNCHANGED elapsed
       ELSE /\ nfc' = nfc + 1
            /\ Sleep
            /\ UNCHANGED <<pc, errmsg>>
    /\ UNCHANGED cur
    /\ UNCHANGED <<storeVars, jobs, retryVars, histVars>>
    /\ UNCHANGED <<running, stopped>>
    /\ UNCHANGED otherVars

\* get answers another error: logged, poll again
WaitGetErr ==
    /\ pc = "wait"
    /\ ~TimedOut
    /\ Sleep
    /\ UNCHANGED <<pc, cur, errmsg, nfc>>
    /\ UNCHANGED <<storeVars, jobs, retryVars, histVars>>
    /\ UNCHANGED <<running, stopped>>
    /\ UNCHANGED otherVars

\* The popped item is in the processing hash and its settle call is ahead.
InFlight == pc \in {"spawn", "wait", "complete", "fail_hdel"}

\* ------------------------------------------------------ end of an iteration
EndIteration ==
    /\ pc' = "check"
    /\ cur' = NoItem
    /\ errmsg' = ""
    /\ elapsed' = 0
    /\ nfc' = 0

\* --------------------------------------------------- Queue::mark_completed
CompleteOk ==
    /\ pc = "complete"
    /\ processing' = HashDel(processing, cur.id)
    /\ EndIteration
    /\ UNCHANGED <<pending, failed, jobs>>
    /\ UNCHANGED <<retryVars, nextId, pushedPayload, popOrder, retries, orphaned>>
    /\ UNCHANGED <<running, stopped>>
    /\ UNCHANGED otherVars

\* let _ = mark_completed(..): the error is dropped
CompleteErr ==
    /\ pc = "complete"
    /\ orphaned' = orphaned \cup {cur.id}
    /\ EndIteration
    /\ UNCHANGED <<storeVars, jobs, retryVars>>
    /\ UNCHANGED <<nextId, pushedPayload, popOrder, retries>>
    /\ UNCHANGED <<running, stopped>>
    /\ UNCHANGED otherVars

\* ------------------------------------------------------ Queue::mark_failed
FailHdelOk ==
    /\ pc = "fail_hdel"
    /\ processing' = HashDel(processing, cur.id)
    /\ pc' = "fail_rpush"
    /\ UNCHANGED <<pending, failed, jobs, cur, errmsg, elapsed, nfc>>
    /\ UNCHANGED <<retryVars, histVars>>
    /\ UNCHANGED <<running, stopped>>
    /\ UNCHANGED otherVars

\* HDEL fails: mark_failed returns the error, which the scheduler drops
FailHdelErr ==
    /\ pc = "fail_hdel"
    /\ orphaned' = orphaned \cup {cur.id}
    /\ EndIteration
    /\ UNCHANGED <<storeVars, jobs, retryVars>>
    /\ UNCHANGED <<nextId, pushedPayload, popOrder, retries>>
    /\ UNCHANGED <<running, stopped>>
    /\ UNCHANGED otherVars

FailRpushOk ==
    /\ pc = "fail_rpush"
    /\ failed' = ListPush(failed, FailedToJson(NewFailedItem(cur, errmsg)))
    /\ EndIteration
    /\ UNCHANGED <<pending, processing, jobs>>
    /\ UNCHANGED <<retryVars, nextId, pushedPayload, popOrder, retries, orphaned>>
    /\ UNCHANGED <<running, stopped>>
    /\ UNCHANGED otherVars

\* RPUSH fails after the HDEL: mark_failed returns the error, dropped
FailRpushErr ==
    /\ pc = "fail_rpush"
    /\ EndIteration
    /\ UNCHANGED <<storeVars, jobs, retryVars, histVars>>
    /\ UNCHANGED <<running, stopped>>
    /\ UNCHANGED otherVars

\* ----------------------------------- Queue::retry_failed (/api/retry/{id})
\* Requests are served by the first idle handler (handlers are interchangeable).
FirstIdle(h) == h = "h1" \/ hpc["h1"] # "idle"

\* LRANGE failed 0 -1, then the scan for the first entry with that id
RetryScanHit(h, id) ==
    /\ hpc[h] = "idle"
    /\ FirstIdle(h)
    /\ ScanFailed(failed, id) # 0
    /\ CanEnqueue
    /\ hjson' = [hjson EXCEPT ![h] = failed[ScanFailed(failed, id)]]
    /\ UNCHANGED hremoved
    /\ hpc' = [hpc EXCEPT ![h] = "lrem"]
    /\ UNCHANGED <<storeVars, jobs, schedVars, histVars>>
    /\ UNCHANGED otherVars

\* no entry with that id: Ok(false), 404 not_found
RetryScanMiss(h, id) ==
    /\ hpc[h] = "idle"
    /\ ScanFailed(failed, id) = 0
    /\ UNCHANGED vars

RetryLrangeErr(h) ==
    /\ hpc[h] = "idle"
    /\ UNCHANGED <<storeVars, jobs, schedVars, retryVars, histVars>>
    /\ UNCHANGED otherVars

RetryLremOk(h) ==
    /\ hpc[h] = "lrem"
    /\ failed' = ListRemFirst(failed, hjson[h])
    /\ hremoved' = [hremoved EXCEPT ![h] = Len(failed) - Len(failed')]
    /\ hpc' = [hpc EXCEPT ![h] = "rpush"]
    /\ UNCHANGED <<pending, processing, jobs, hjson>>
    /\ UNCHANGED <<schedVars, histVars>>
    /\ UNCHANGED otherVars

RetryLremErr(h) ==
    /\ hpc[h] = "lrem"
    /\ hpc' = [hpc EXCEPT ![h] = "idle"]
    /\ hjson' = [hjson EXCEPT ![h] = NoItem]
    /\ hremoved' = [hremoved EXCEPT ![h] = 0]
    /\ UNCHANGED <<storeVars, jobs, schedVars, histVars>>
    /\ UNCHANGED otherVars

\* RPUSH pending <failed.item>: Ok(true)
RetryRpushOk(h) ==
    /\ hpc[h] = "rpush"
    /\ pending' = ListPush(pending, ItemToJson(FailedFromJson(hjson[h]).item))
    /\ hpc' = [hpc EXCEPT ![h] = "idle"]
    /\ hjson' = [hjson EXCEPT ![h] = NoItem]
    /\ hremoved' = [hremoved EXCEPT ![h] = 0]
    /\ retries' = retries + 1
    /\ UNCHANGED <<processing, failed, jobs>>
    /\ UNCHANGED <<schedVars, nextId, pushedPayload, popOrder, orphaned>>
    /\ UNCHANGED otherVars

RetryRpushErr(h) ==
    /\ hpc[h] = "rpush"
    /\ hpc' = [hpc EXCEPT ![h] = "idle"]
    /\ hjson' = [hjson EXCEPT ![h] = NoItem]
    /\ hremoved' = [hremoved EXCEPT ![h] = 0]
    /\ UNCHANGED <<storeVars, jobs, schedVars, histVars>>
    /\ UNCHANGED otherVars

\* -------------------------------------------- the workloads (environment)
JobStart(n) ==
    /\ n \in DOMAIN jobs
    /\ jobs[n] = "created"
    /\ jobs' = [jobs EXCEPT ![n] = "active"]
    /\ UNCHANGED <<storeVars, schedVars, retryVars, histVars>>
    /\ UNCHANGED otherVars

\* The pod exits.  Whether it succeeded is read by the one poll that sees the
\* finished workload (WaitSucceeded, WaitFailed): wait_for_job returns at once.
JobFinish(n) ==
    /\ n \in DOMAIN jobs
    /\ jobs[n] = "active"
    /\ jobs' = [jobs EXCEPT ![n] = "finished"]
    /\ UNCHANGED <<storeVars, schedVars, retryVars, histVars>>
    /\ UNCHANGED otherVars

\* ttlSecondsAfterFinished, or a deletion from outside
JobGone(n) ==
    /\ n \in DOMAIN jobs
    /\ jobs' = JobsWithout(jobs, n)
    /\ UNCHANGED <<storeVars, schedVars, retryVars, histVars>>
    /\ UNCHANGED otherVars

\* ------------------------------------------ crash and restart of the server
Crash ==
    /\ orphaned' = IF InFlight THEN orphaned \cup {cur.id} ELSE orphaned
    /\ pc' = "start"
    /\ cur' = NoItem
    /\ errmsg' = ""
    /\ elapsed' = 0
    /\ nfc' = 0
    /\ hpc' = [h \in Handlers |-> "idle"]
    /\ hjson' = [h \in Handlers |-> NoItem]
    /\ hremoved' = [h \in Handlers |-> 0]
    /\ UNCHANGED <<storeVars, jobs>>
    /\ UNCHANGED <<nextId, pushedPayload, popOrder, retries>>
    /\ running' = FALSE
    /\ stopped' = FALSE
    /\ UNCHANGED otherVars

\* ---------------------------------------------------------- Scheduler::stop
\* shutdown_signal: *self.running.lock().await = false
Stop ==
    /\ ~stopped
    /\ running' = FALSE
    /\ stopped' = TRUE
    /\ UNCHANGED <<pc, cur, errmsg, elapsed, nfc>>
    /\ UNCHANGED <<storeVars, jobs, retryVars, histVars>>
    /\ UNCHANGED otherVars

\* `while *self.running.lock().await` finds the flag false: "Scheduler stopped"
Return ==
    /\ pc = "check"
    /\ ~running
    /\ pc' = "returned"
    /\ UNCHANGED <<cur, errmsg, elapsed, nfc, running, stopped>>
    /\ UNCHANGED <<storeVars, jobs, retryVars, histVars>>
    /\ UNCHANGED otherVars

\* ---------------------------------------------------------- specification
\* The steps of the scheduler while no item comes to it a second time.
SchedulerStepOnce ==
    \/ Start
    \/ CheckRunning \/ CheckIdle \/ CheckListErr
    \/ PopSome \/ PopNone \/ PopErr
    \/ MarkProcessingOk \/ MarkProcessingErr
    \/ SpawnOk \/ SpawnErr
    \/ WaitTimeoutDeleteOk \/ WaitTimeoutDeleteErr
    \/ WaitSucceeded \/ WaitFailed \/ WaitStillRunning \/ WaitNotFound \/ WaitGetErr
    \/ CompleteOk \/ CompleteErr
    \/ FailHdelOk \/ FailHdelErr \/ FailRpushOk \/ FailRpushErr

SchedulerStep == SchedulerStepOnce \/ SpawnConflict

Next ==
    \/ \E p \in PayloadsFor(nextId) : PushOk(p)
    \/ PushErr
    \/ SchedulerStep
    \/ \E h \in Handlers, id \in Ids : RetryScanHit(h, id)
    \/ \E h \in Handlers, id \in Ids : RetryScanMiss(h, id)
    \/ \E h \in Handlers :
        \/ RetryLrangeErr(h)
        \/ RetryLremOk(h) \/ RetryLremErr(h)
        \/ RetryRpushOk(h) \/ RetryRpushErr(h)
    \/ \E n \in DOMAIN jobs :
        \/ JobStart(n)
        \/ JobFinish(n)
        \/ JobGone(n)
    \/ Crash

Spec == Init /\ [][Next]_vars

\* The scheduler from its start to its graceful stop: main spawns run as a
\* task of its own and calls stop when the shutdown signal arrives, whenever
\* that is.  No item is retried, so no workload name is taken twice.
RunNext ==
    \/ \E p \in PayloadsFor(nextId) : nextId <= MaxRunItems /\ PushOk(p)
    \/ SchedulerStepOnce
    \/ Return
    \/ Stop
    \/ \E n \in DOMAIN jobs :
        \/ JobStart(n)
        \/ JobFinish(n)
        \/ JobGone(n)

\* The run task is scheduled again and again, and each of its calls to the
\* store and to the orchestrator returns.
RunSpec == Init /\ [][RunNext]_vars /\ WF_vars(SchedulerStepOnce \/ Return)

\* The names the workloads of the first MaxRunItems items can take.
RunJobNames ==
    {JobName(NewQueueItem(id, p)) : id \in 1..MaxRunItems, p \in Payloads}

\* The scheduler running for good: nobody calls stop, the server does not
\* crash, no item is retried.
ServeNext ==
    \/ \E p \in PayloadsFor(nextId) : nextId <= MaxRunItems /\ PushOk(p)
    \/ SchedulerStepOnce
    \/ \E n \in DOMAIN jobs :
        \/ JobStart(n)
        \/ JobFinish(n)
        \/ JobGone(n)

\* The run task is scheduled again and again; no call to the store or to the
\* orchestrator that is made again and again is answered with an error every
\* time; every workload that was created starts, and every workload that
\* runs exits.
ServeSpec ==
    /\ Init
    /\ [][ServeNext]_vars
    /\ WF_vars(SchedulerStepOnce)
    /\ SF_vars(CheckIdle) /\ SF_vars(PopSome) /\ SF_vars(MarkProcessingOk)
    /\ SF_vars(SpawnOk) /\ SF_vars(WaitTimeoutDeleteOk)
    /\ SF_vars(WaitSucceeded \/ WaitFailed)
    /\ SF_vars(CompleteOk) /\ SF_vars(FailHdelOk) /\ SF_vars(FailRpushOk)
    /\ \A n \in RunJobNames : WF_vars(JobStart(n)) /\ WF_vars(JobFinish(n))

\* =================================================== the Jira token manager
queueVars == <<pending, processing, failed, jobs, pc, cur, errmsg, elapsed, nfc, hpc, hjson, hremoved,
               nextId, pushedPayload, popOrder, retries, orphaned, running, stopped>>

\* What the token manager leaves alone.
nonTokenVars == <<queueVars, webVars, callVars, clientVars, workerVars>>

\* A cache check that never finds a usable token.
Fresh_Never(cached, t) == FALSE

\* cached.expires_at > Instant::now() + EXPIRY_BUFFER
Fresh(cached, t) == cached # NoCache /\ cached.expires_at > t + ExpiryBufferSecs

\* -------------------------------------------- get_access_token_with_expiry
\* The cached token is fresh: it is returned, nothing else happens.
GetCached(c) ==
    /\ tpc[c] = "idle"
    /\ Fresh(cached_token, now)
    /\ tres' = [tres EXCEPT ![c] = OkResult(cached_token.token)]
    /\ UNCHANGED <<cached_token, bootstrap, secret, upstream, now, tpc, tloc, persisted>>
    /\ UNCHANGED nonTokenVars

\* No cached token, or one within the expiry buffer: refresh.
GetStale(c) ==
    /\ tpc[c] = "idle"
    /\ ~Fresh(cached_token, now)
    /\ tpc' = [tpc EXCEPT ![c] = "read"]
    /\ tloc' = [tloc EXCEPT ![c] = [NoLocals EXCEPT !.entry = "get"]]
    /\ tres' = [tres EXCEPT ![c] = NoResult]
    /\ UNCHANGED <<cached_token, bootstrap, secret, upstream, now, persisted>>
    /\ UNCHANGED nonTokenVars

\* ------------------------------------------------------------ force_refresh
ForceRefresh(c) ==
    /\ tpc[c] = "idle"
    /\ cached_token' = NoCache
    /\ tpc' = [tpc EXCEPT ![c] = "read"]
    /\ tloc' = [tloc EXCEPT ![c] = [NoLocals EXCEPT !.entry = "force"]]
    /\ tres' = [tres EXCEPT ![c] = NoResult]
    /\ UNCHANGED <<bootstrap, secret, upstream, now, persisted>>
    /\ UNCHANGED nonTokenVars

\* A call returns Err(e).
ReturnErr(c, e) ==
    /\ tpc' = [tpc EXCEPT ![c] = "idle"]
    /\ tloc' = [tloc EXCEPT ![c] = NoLocals]
    /\ tres' = [tres EXCEPT ![c] = ErrResult(e)]

\* ------------------------------------------------------- read_refresh_token
\* The token read_refresh_token returns given what the secret get answered
\* (NoSecret for a 404 and for any other error); EmptyToken stands for
\* Err(NoRefreshToken).
ReadRefreshToken(answer) ==
    IF answer.present /\ answer.refresh # EmptyToken
    THEN answer.refresh
    ELSE bootstrap

AfterRead(c, token) ==
    IF token # EmptyToken
    THEN /\ tpc' = [tpc EXCEPT ![c] = "exchange"]
         /\ tloc' = [tloc EXCEPT ![c].refresh = token]
         /\ UNCHANGED tres
    ELSE ReturnErr(c, "NoRefreshToken")

\* secrets_api.get answers: the secret, or 404 when there is none
ReadSecretOk(c) ==
    /\ tpc[c] = "read"
    /\ AfterRead(c, ReadRefreshToken(secret))
    /\ UNCHANGED <<cached_token, bootstrap, secret, upstream, now, persisted>>
    /\ UNCHANGED nonTokenVars

\* secrets_api.get fails otherwise: "trying bootstrap token"
ReadSecretErr(c) ==
    /\ tpc[c] = "read"
    /\ AfterRead(c, ReadRefreshToken(NoSecret))
    /\ UNCHANGED <<cached_token, bootstrap, secret, upstream, now, persisted>>
    /\ UNCHANGED nonTokenVars

\* --------------------------------------------------- exchange_refresh_token
\* The token endpoint rotates refresh tokens: each exchange returns a new one
\* and invalidates the one presented.
ExchangeOk(c) ==
    /\ tpc[c] = "exchange"
    /\ tloc[c].refresh = upstream.valid
    /\ upstream.issued < MaxExchange
    /\ \E e \in ExpiresInValues :
        LET n == upstream.issued + 1 IN
        /\ upstream' = [valid |-> RefreshToken(n), issued |-> n]
        /\ tloc' = [tloc EXCEPT ![c].access = AccessToken(n),
                                ![c].new_refresh = RefreshToken(n),
                                ![c].expires_in = e]
    /\ tpc' = [tpc EXCEPT ![c] = "write"]
    /\ UNCHANGED <<cached_token, bootstrap, secret, now, tres, persisted>>
    /\ UNCHANGED nonTokenVars

\* a status that is not a success (invalid_grant)
ExchangeRejected(c) ==
    /\ tpc[c] = "exchange"
    /\ tloc[c].refresh # upstream.valid
    /\ ReturnErr(c, "OAuth")
    /\ UNCHANGED <<cached_token, bootstrap, secret, upstream, now, persisted>>
    /\ UNCHANGED nonTokenVars

\* the request fails
ExchangeErr(c) ==
    /\ tpc[c] = "exchange"
    /\ ReturnErr(c, "Http")
    /\ UNCHANGED <<cached_token, bootstrap, secret, upstream, now, persisted>>
    /\ UNCHANGED nonTokenVars

\* ------------------------------------------------------------ update_secret
\* An update_secret whose error is not looked at.
UpdateSecretResult_Ignored(patch, create) == "ok"

\* match patch { Ok => Ok, 404 => create?, Err(e) => Err(e) }
UpdateSecretResult(patch, create) ==
    CASE patch = "ok" -> "ok"
      [] patch = "not_found" -> create
      [] OTHER -> "error"

\* update_secret with the answers of patch and create, then the `?` of
\* refresh_and_cache_with_expiry.
UpdateSecret(c, patch, create) ==
    /\ tpc[c] = "write"
    /\ LET written == patch = "ok" \/ (patch = "not_found" /\ create = "ok") IN
        /\ secret' = IF written
                     THEN [present |-> TRUE, access |-> tloc[c].access,
                           refresh |-> tloc[c].new_refresh]
                     ELSE secret
        /\ persisted' = IF written THEN persisted \cup {tloc[c].access} ELSE persisted
    /\ IF UpdateSecretResult(patch, create) = "ok"
       THEN /\ tpc' = [tpc EXCEPT ![c] = "cache"]
            /\ UNCHANGED <<tloc, tres>>
       ELSE ReturnErr(c, "Kubernetes")
    /\ UNCHANGED <<cached_token, bootstrap, upstream, now>>
    /\ UNCHANGED nonTokenVars

\* the server-side apply patch succeeds (it creates a missing secret)
PatchSecretOk(c) == UpdateSecret(c, "ok", "ok")

\* patch answers 404, then create
PatchNotFoundCreate(c) ==
    /\ ~secret.present
    /\ \E create \in {"ok", "error"} : UpdateSecret(c, "not_found", create)

PatchSecretErr(c) == UpdateSecret(c, "error", "error")

\* ------------------------------------------ refresh_and_cache_with_expiry
\* The cache is written and Ok((access_token, expires_in)) returned.
CacheAndReturn(c) ==
    /\ tpc[c] = "cache"
    /\ cached_token' = [token |-> tloc[c].access, expires_at |-> now + tloc[c].expires_in]
    /\ tres' = [tres EXCEPT ![c] = OkResult(tloc[c].access)]
    /\ tpc' = [tpc EXCEPT ![c] = "idle"]
    /\ tloc' = [tloc EXCEPT ![c] = NoLocals]
    /\ UNCHANGED <<bootstrap, secret, upstream, now, persisted>>
    /\ UNCHANGED nonTokenVars

\* ------------------------------------------------------------- environment
Tick ==
    /\ now' \in {t \in Clock : t > now}
    /\ UNCHANGED <<cached_token, bootstrap, secret, upstream, tpc, tloc, tres, persisted>>
    /\ UNCHANGED nonTokenVars

\* The server restarts: the cache and the calls under way are gone.
TokenRestart ==
    /\ cached_token' = NoCache
    /\ tpc' = [c \in Callers |-> "idle"]
    /\ tloc' = [c \in Callers |-> NoLocals]
    /\ tres' = [c \in Callers |-> NoResult]
    /\ UNCHANGED <<bootstrap, secret, upstream, now, persisted>>
    /\ UNCHANGED nonTokenVars

TokenInit ==
    /\ QueueInit
    /\ WebIdle
    /\ CallIdle /\ ClientIdle /\ WorkerIdle
    /\ TokenManagerNew
    /\ bootstrap \in {EmptyToken, BootstrapToken}
    /\ secret \in {NoSecret, BlankSecret}
    /\ upstream = [valid |-> BootstrapToken, issued |-> 0]

TokenNext ==
    \/ \E c \in Callers :
        \/ GetCached(c) \/ GetStale(c) \/ ForceRefresh(c)
        \/ ReadSecretOk(c) \/ ReadSecretErr(c)
        \/ ExchangeOk(c) \/ ExchangeRejected(c) \/ ExchangeErr(c)
        \/ PatchSecretOk(c) \/ PatchNotFoundCreate(c) \/ PatchSecretErr(c)
        \/ CacheAndReturn(c)
    \/ Tick
    \/ TokenRestart

TokenSpec == TokenInit /\ [][TokenNext]_vars

\* --------------------------------------- a healthy upstream and secret store
\* The deployment as configured: the bootstrap token is the one the token
\* endpoint accepts and the dynamic secret does not exist yet.
HealthyInit ==
    /\ QueueInit
    /\ WebIdle
    /\ CallIdle /\ ClientIdle /\ WorkerIdle
    /\ TokenIdle

\* get_access_token calls against a token endpoint that answers every request
\* (a new token pair for the current refresh token, invalid_grant for any
\* other) and a secret store whose get and patch always succeed.
HealthyNext ==
    \/ \E c \in Callers :
        \/ GetCached(c) \/ GetStale(c)
        \/ ReadSecretOk(c)
        \/ ExchangeOk(c) \/ ExchangeRejected(c)
        \/ PatchSecretOk(c)
        \/ CacheAndReturn(c)
    \/ Tick

HealthySpec == HealthyInit /\ [][HealthyNext]_vars

\* ================================================ webhook and API handlers
\* A request: its route; whether its credential (X-Gitlab-Token, HMAC
\* signature, bearer key) is right; whether its body parses; what it is about
\* (for a merge_request event, event is its MergeRequestOutcome; for a
\* pipeline event, its status, its triggering user and whether it names a
\* merge request); and the answers the services called while serving it will
\* give (fetch "none": no open merge request for the branch).
AllRequests ==
    [route : Routes, auth : {"ok", "bad"}, body : {"ok", "malformed"},
     kind : {"merge_request", "pipeline", "note", "other"},
     event : {"act", "ignore", "skip"},
     status : {"failed", "success"}, user : Users, has_mr : BOOLEAN,
     mapped : BOOLEAN, fetch : {"ok", "none", "error"}, query : {"ok", "error"}]

\* A field that does not exist for a request is left at its first value: what
\* a route has no use for, the content of a body that does not parse, the
\* mapping of an event that is ignored, the answer to a call that the missing
\* mapping or the failed fetch makes impossible.
Requests ==
    {req : req \in {r \in AllRequests :
        /\ r.route # "api/retry"
        /\ r.route # "webhook/gitlab" => r.kind = "merge_request"
        /\ r.kind # "pipeline"
            => (r.status = "failed" /\ r.user = "alice" /\ r.has_mr /\ r.fetch # "none")
        /\ r.kind = "pipeline"
            => /\ r.event = "act"
               /\ (r.status # "failed" \/ r.has_mr) => r.fetch = "ok"
               /\ r.status # "failed" => (r.user = "alice" /\ r.has_mr)
        /\ r.route \notin {"webhook/gitlab", "webhook/github", "webhook/sentry", "webhook/jira"}
            => r.event = "act"
        /\ r.route \notin {"webhook/gitlab", "webhook/github"} => r.event # "skip"
        /\ r.route \notin {"webhook/sentry", "webhook/jira", "api/sentry-fix", "api/jira-fix"}
            => (r.mapped /\ r.query = "ok")
        /\ r.route \in {"webhook/github", "webhook/sentry", "webhook/jira"} => r.fetch = "ok"
        /\ r.route = "api/stats" => r.body = "ok"
        /\ r.body # "ok"
            => (r.kind = "merge_request" /\ r.event = "act" /\ r.mapped
                /\ r.fetch = "ok" /\ r.query = "ok")
        /\ (r.kind = "other" \/ r.event # "act" \/ ~r.mapped)
            => (r.fetch = "ok" /\ r.query = "ok")
        /\ (r.kind = "other" \/ r.event # "act") => r.mapped
        /\ r.kind = "other" => r.event = "act"
        /\ r.kind = "note" => r.event # "skip"
        /\ (r.route = "api/sentry-fix" /\ r.fetch # "ok") => r.query = "ok"}}

\* The requests other than pipeline events, and those to /webhook/gitlab.
WebRequests == {req : req \in {r \in Requests : r.kind # "pipeline"}}
GitlabRequests == {req : req \in {r \in Requests : r.route = "webhook/gitlab"}}

\* What the code before queue.push comes to: a response, or a payload to push.
Answer(resp) == [resp |-> resp, job |-> NoJob]
Proceed(payload, calls, webhook) ==
    [resp |-> NoResp, job |-> [payload |-> payload, calls |-> calls, webhook |-> webhook]]

\* AppError::into_response
Unauthorized == Resp(401, "Unauthorized", {})
BadRequest(calls) == Resp(400, "BadRequest", calls)
Internal(calls) == Resp(500, "Internal", calls)
RedisError(calls) == Resp(500, "Redis", calls)
\* The Json extractor's rejection (400, 415 or 422), sent before the handler runs.
JsonRejection == Resp(422, "JsonRejection", {})

\* branch_exists_on_platform: branch_exists(..).await.unwrap_or(false)
BranchExistsOnPlatform(query, branch, brs) ==
    IF query = "ok" THEN branch \in brs ELSE FALSE

UnwrapOr(o, d) == IF o.some THEN o.v ELSE d

\* GitLab merge_request events: object_attributes.state, .draft,
\* .work_in_progress, .action and the titles of labels.
MergeRequestEvents ==
    [object_kind : {"merge_request"},
     state : {"opened", "reopened", "merged"},
     draft : {None, Some(TRUE), Some(FALSE)},
     work_in_progress : {None, Some(TRUE), Some(FALSE)},
     action : {None, Some("open"), Some("update"), Some("reopen"), Some("merge")},
     labels : {None, Some(<<>>), Some(<<"skip-review">>), Some(<<"bug">>),
               Some(<<"bug", "skip-review">>)}]

\* MergeRequestEvent::should_review that answers true for every event.
ShouldReview_Always(ev) == TRUE

\* MergeRequestEvent::should_review
ShouldReview(ev) ==
    IF ev.object_kind # "merge_request" THEN FALSE
    ELSE IF ev.state # "opened" /\ ev.state # "reopened" THEN FALSE
    ELSE IF UnwrapOr(ev.draft, FALSE) \/ UnwrapOr(ev.work_in_progress, FALSE) THEN FALSE
    ELSE IF ev.action \in {Some("open"), Some("update"), Some("reopen")} THEN TRUE
    ELSE FALSE

\* MergeRequestEvent::has_label
HasLabel(ev, label_name) ==
    IF ev.labels.some
    THEN \E i \in DOMAIN ev.labels.v : ev.labels.v[i] = label_name
    ELSE FALSE

\* handle_merge_request_event up to queue.push: what becomes of the event.
MergeRequestOutcome(ev) ==
    IF ~ShouldReview(ev) THEN "ignore"
    ELSE IF HasLabel(ev, "skip-review") THEN "skip"
    ELSE "act"

\* a.eq_ignore_ascii_case(author)
EqIgnoreAsciiCase(a, b) == ToLowercase(a) = ToLowercase(b)

\* AppState::is_author_allowed that lets every author pass.
IsAuthorAllowed_All(allowed_authors, author) == TRUE

\* AppState::is_author_allowed
IsAuthorAllowed(allowed_authors, author) ==
    \/ allowed_authors = <<>>
    \/ \E i \in DOMAIN allowed_authors : EqIgnoreAsciiCase(allowed_authors[i], author)

\* lookup_pipeline_payload: the payload (NoPayload: none) and the calls made
LookupPipelinePayload(r) ==
    IF r.has_mr THEN [payload |-> LintFixJob, calls |-> {}]
    ELSE IF r.fetch = "ok" THEN [payload |-> LintFixJob, calls |-> {"vcs"}]
    ELSE [payload |-> NoPayload, calls |-> {"vcs"}]

\* ignored(message), where the model tells the messages apart.
Ignored(message, calls) ==
    [status |-> 200, kind |-> "ignored", job_id |-> 0, calls |-> calls, message |-> message]

\* handle_pipeline_event
HandlePipelineEvent(r, cfg) ==
    IF r.status # "failed" THEN Answer(Ignored("Pipeline status is not 'failed'", {}))
    ELSE IF ~IsAuthorAllowed(cfg.allowed_authors, r.user)
    THEN Answer(Ignored("Author not in allowed list", {}))
    ELSE LET found == LookupPipelinePayload(r) IN
        IF found.payload = NoPayload
        THEN Answer(Ignored("No open MR found for branch", found.calls))
        ELSE Proceed(found.payload, found.calls, FALSE)

\* gitlab_webhook_handler and handle_merge_request_event / handle_note_event
GitlabWebhook(r, cfg) ==
    IF r.auth # "ok" THEN Answer(Unauthorized)
    ELSE IF r.body # "ok" THEN Answer(BadRequest({}))
    ELSE CASE r.kind = "merge_request" ->
                CASE r.event = "ignore" -> Answer(Resp(200, "ignored", {}))
                  [] r.event = "skip" -> Answer(Resp(200, "skipped", {}))
                  [] OTHER -> Proceed(ReviewJob, {}, FALSE)
           [] r.kind = "pipeline" -> HandlePipelineEvent(r, cfg)
           [] r.kind = "note" ->
                IF r.event # "act" THEN Answer(Resp(200, "ignored", {}))
                ELSE IF r.fetch # "ok" THEN Answer(Internal({"vcs"}))
                ELSE Proceed(ReviewJob, {"vcs"}, FALSE)
           [] OTHER -> Answer(Resp(200, "ignored", {}))

\* github_webhook_handler
GithubWebhook(r) ==
    IF r.auth # "ok" THEN Answer(Unauthorized)
    ELSE IF r.event = "skip" THEN Answer(Resp(200, "ignored", {}))
    ELSE IF r.body # "ok" THEN Answer(BadRequest({}))
    ELSE IF r.event = "ignore" THEN Answer(Resp(200, "ignored", {}))
    ELSE Proceed(ReviewJob, {}, FALSE)

\* queue_sentry_webhook_fix / queue_jira_webhook_fix
QueueWebhookFix(r, prefix, issue, payload, brs) ==
    IF ~r.mapped THEN Answer(BadRequest({}))
    ELSE IF BranchExistsOnPlatform(r.query, FixBranch(prefix, issue), brs)
    THEN Answer(Resp(200, "skipped", {"vcs"}))
    ELSE Proceed(payload, {"vcs"}, TRUE)

\* sentry_webhook_handler
SentryWebhook(r, cfg, brs) ==
    IF ~cfg.sentry_webhook_secret THEN Answer(Internal({}))
    ELSE IF r.auth # "ok" THEN Answer(Unauthorized)
    ELSE IF r.body # "ok" THEN Answer(BadRequest({}))
    ELSE IF r.event # "act" THEN Answer(Resp(200, "ignored", {}))
    ELSE QueueWebhookFix(r, "sentry-fix", SentryIssue, SentryFixJob, brs)

\* jira_webhook_handler
JiraWebhook(r, cfg, brs) ==
    IF cfg.jira_webhook_secret /\ r.auth # "ok" THEN Answer(Unauthorized)
    ELSE IF r.body # "ok" THEN Answer(BadRequest({}))
    ELSE IF r.event # "act" THEN Answer(Resp(200, "ignored", {}))
    ELSE QueueWebhookFix(r, "jira-fix", JiraIssue, JiraTicketJob, brs)

\* queue_review_handler, queue_github_review_handler: fetch the MR / PR
QueueReview(r, service) ==
    IF r.auth # "ok" THEN Answer(Unauthorized)
    ELSE IF r.fetch # "ok" THEN Answer(Internal({service}))
    ELSE Proceed(ReviewJob, {service}, FALSE)

\* queue_sentry_fix_handler
QueueSentryFix(r, brs) ==
    IF r.auth # "ok" THEN Answer(Unauthorized)
    ELSE IF ~r.mapped THEN Answer(BadRequest({}))
    ELSE IF r.fetch # "ok" THEN Answer(Internal({"sentry"}))
    ELSE IF BranchExistsOnPlatform(r.query, FixBranch("sentry-fix", SentryIssue), brs)
    THEN Answer(Resp(200, "skipped", {"sentry", "vcs"}))
    ELSE Proceed(SentryFixJob, {"sentry", "vcs"}, FALSE)

\* queue_jira_fix_handler
QueueJiraFix(r, brs) ==
    IF r.auth # "ok" THEN Answer(Unauthorized)
    ELSE IF ~r.mapped THEN Answer(BadRequest({}))
    ELSE IF BranchExistsOnPlatform(r.query, FixBranch("jira-fix", JiraIssue), brs)
    THEN Answer(Resp(200, "skipped", {"vcs"}))
    ELSE IF r.fetch # "ok" THEN Answer(Internal({"vcs", "jira"}))
    ELSE Proceed(JiraTicketJob, {"vcs", "jira"}, FALSE)

\* queue_stats_handler
QueueStats(r) ==
    IF r.auth # "ok" THEN Answer(Unauthorized)
    ELSE IF r.fetch # "ok" THEN Answer(RedisError({"redis"}))
    ELSE Answer(Resp(200, "stats", {"redis"}))

\* The router: the extractors of the handler's signature, then the handler.
Serve(r, cfg, brs) ==
    IF r.route \in JsonRoutes /\ r.body # "ok" THEN Answer(JsonRejection)
    ELSE CASE r.route = "webhook/gitlab" -> GitlabWebhook(r, cfg)
           [] r.route = "webhook/github" -> GithubWebhook(r)
           [] r.route = "webhook/sentry" -> SentryWebhook(r, cfg, brs)
           [] r.route = "webhook/jira" -> JiraWebhook(r, cfg, brs)
           [] r.route = "api/review" -> QueueReview(r, "vcs")
           [] r.route = "api/sentry-fix" -> QueueSentryFix(r, brs)
           [] r.route = "api/jira-fix" -> QueueJiraFix(r, brs)
           [] r.route = "api/stats" -> QueueStats(r)

\* What the web handlers leave alone.
nonWebVars == <<processing, failed, jobs, schedVars, retryVars, popOrder, retries, orphaned,
                tokenVars, callVars, clientVars, workerVars>>

\* Requests are served by the first idle task (tasks are interchangeable).
FirstIdleTask(w) == w = "w1" \/ wpc["w1"] # "idle"

\* Jobs enqueued so far, counting the pushes under way.
WebCanPush == (nextId - 1) + Cardinality({x \in WebTasks : wpc[x] = "push"}) < MaxWebPush

\* A request to a route other than /api/retry arrives and is served up to its
\* response or up to the call of queue.push.
Receive(w, r) ==
    /\ wpc[w] = "idle"
    /\ FirstIdleTask(w)
    /\ r.route # "api/retry"
    /\ LET out == Serve(r, config, branches) IN
        IF out.job = NoJob
        THEN /\ lastResp' = out.resp
             /\ UNCHANGED <<wpc, wjob>>
        ELSE /\ WebCanPush
             /\ wpc' = [wpc EXCEPT ![w] = "push"]
             /\ wjob' = [wjob EXCEPT ![w] = out.job]
             /\ UNCHANGED lastResp
    /\ UNCHANGED <<pending, nextId, pushedPayload, branches, config, delivered>>
    /\ UNCHANGED nonWebVars

\* retry_handler with a wrong or missing key; with the right key it goes on
\* to Queue::retry_failed (RetryScanHit, RetryScanMiss, RetryLrangeErr).
RetryUnauthorized(w) ==
    /\ wpc[w] = "idle"
    /\ FirstIdleTask(w)
    /\ lastResp' = Unauthorized
    /\ UNCHANGED <<wpc, wjob, pending, nextId, pushedPayload, branches, config, delivered>>
    /\ UNCHANGED nonWebVars

IssueOf(payload) ==
    CASE payload.variant = "SentryFix" -> SentryIssue
      [] payload.variant = "JiraTicket" -> JiraIssue

\* state.queue.push(payload) answers Ok(job_id): queued(job_id)
WebPushOk(w) ==
    /\ wpc[w] = "push"
    /\ pending' = ListPush(pending, ItemToJson(NewQueueItem(nextId, wjob[w].payload)))
    /\ nextId' = nextId + 1
    /\ pushedPayload' = Append(pushedPayload, wjob[w].payload)
    /\ delivered' = IF wjob[w].webhook
                    THEN [delivered EXCEPT ![IssueOf(wjob[w].payload)] = @ + 1]
                    ELSE delivered
    /\ lastResp' = Queued(nextId, wjob[w].calls \cup {"redis"})
    /\ wpc' = [wpc EXCEPT ![w] = "idle"]
    /\ wjob' = [wjob EXCEPT ![w] = NoJob]
    /\ UNCHANGED <<branches, config>>
    /\ UNCHANGED nonWebVars

\* state.queue.push(payload) answers Err: AppError::Redis
WebPushErr(w) ==
    /\ wpc[w] = "push"
    /\ lastResp' = RedisError(wjob[w].calls \cup {"redis"})
    /\ wpc' = [wpc EXCEPT ![w] = "idle"]
    /\ wjob' = [wjob EXCEPT ![w] = NoJob]
    /\ UNCHANGED <<pending, nextId, pushedPayload, branches, config, delivered>>
    /\ UNCHANGED nonWebVars

\* A fix branch appears on the VCS platform (the fix job pushes it).
BranchCreated(b) ==
    /\ b \notin branches
    /\ branches' = branches \cup {b}
    /\ UNCHANGED <<wpc, wjob, lastResp, config, delivered, pending, nextId, pushedPayload>>
    /\ UNCHANGED nonWebVars

\* The server restarts: the requests under way are gone.
WebRestart ==
    /\ wpc' = [w \in WebTasks |-> "idle"]
    /\ wjob' = [w \in WebTasks |-> NoJob]
    /\ UNCHANGED <<lastResp, branches, config, delivered, pending, nextId, pushedPayload>>
    /\ UNCHANGED nonWebVars

WebInit ==
    /\ QueueInit
    /\ TokenIdle
    /\ CallIdle /\ ClientIdle /\ WorkerIdle
    /\ WebStart
    /\ config \in {[sentry_webhook_secret |-> b, jira_webhook_secret |-> b,
                     allowed_authors |-> <<"alice">>] : b \in BOOLEAN}

WebNext ==
    \/ \E w \in WebTasks, r \in WebRequests : Receive(w, r)
    \/ \E w \in WebTasks :
        \/ RetryUnauthorized(w)
        \/ WebPushOk(w)
        \/ WebPushErr(w)
    \/ \E h \in Handlers, id \in Ids : RetryScanMiss(h, id)
    \/ \E h \in Handlers : RetryLrangeErr(h)
    \/ \E b \in FixBranches : BranchCreated(b)
    \/ WebRestart

WebSpec == WebInit /\ [][WebNext]_vars

\* The GitLab webhook under each configured allowlist.
AllowlistInit ==
    /\ QueueInit
    /\ TokenIdle
    /\ CallIdle /\ ClientIdle /\ WorkerIdle
    /\ WebStart
    /\ config \in {[sentry_webhook_secret |-> TRUE, jira_webhook_secret |-> TRUE,
                     allowed_authors |-> a] : a \in Allowlists}

AllowlistNext ==
    \/ \E w \in WebTasks, r \in GitlabRequests : Receive(w, r)
    \/ \E w \in WebTasks :
        \/ WebPushOk(w)
        \/ WebPushErr(w)
    \/ \E b \in FixBranches : BranchCreated(b)
    \/ WebRestart

AllowlistSpec == AllowlistInit /\ [][AllowlistNext]_vars

\* ------------------------------------------- GitLab merge_request webhooks
\* The request that delivers a merge_request event of the given outcome.
MergeRequestRequest(auth, outcome) ==
    [route |-> "webhook/gitlab", auth |-> auth, body |-> "ok", kind |-> "merge_request",
     event |-> outcome, status |-> "failed", user |-> "alice",
     has_mr |-> TRUE, mapped |-> TRUE, fetch |-> "ok", query |-> "ok"]

\* A merge_request event with all its fields is delivered.
ReceiveMergeRequest(w, auth, ev) ==
    Receive(w, MergeRequestRequest(auth, MergeRequestOutcome(ev)))

MergeRequestNext ==
    \/ \E w \in WebTasks, auth \in {"ok", "bad"}, ev \in MergeRequestEvents :
            ReceiveMergeRequest(w, auth, ev)
    \/ \E w \in WebTasks :
        \/ WebPushOk(w)
        \/ WebPushErr(w)
    \/ WebRestart

\* The server under each configuration of its optional settings.
MergeRequestInit ==
    /\ QueueInit
    /\ TokenIdle
    /\ CallIdle /\ ClientIdle /\ WorkerIdle
    /\ WebStart
    /\ config \in [sentry_webhook_secret : BOOLEAN, jira_webhook_secret : BOOLEAN,
                    allowed_authors : Allowlists]

MergeRequestSpec == MergeRequestInit /\ [][MergeRequestNext]_vars

\* ======================================== functions taken one call at a time
\* What a call of such a function leaves alone.
nonCallVars == <<queueVars, tokenVars, webVars, clientVars, workerVars>>

\* A call of `fn` with arguments `a` returns `value`.
Call(fn, a, value) ==
    /\ arg = NoCall
    /\ arg' = [fn |-> fn, a |-> a]
    /\ result' = [fn |-> fn, value |-> value]
    /\ UNCHANGED nonCallVars

\* ------------------------------------------------ JiraComment::mentions_bot
\* serde_json::Value, as the pair of its kind and what it holds.  A string is
\* a sequence of pieces, so that text split over several nodes can be put
\* together and searched.
JString(s) == <<"string", s>>
JArray(a) == <<"array", a>>
JObject(f) == <<"object", f>>
JNull == <<"null">>

BOT_MENTION == <<"@claude", "-agent">>
BOT_ACCOUNT_ID == <<"712020:8218f147">>

\* str::to_lowercase, piece by piece
LowerPiece(t) ==
    CASE t = "@CLAUDE" -> "@claude"
      [] t = "-Agent" -> "-agent"
      [] OTHER -> t

TextToLowercase(text) == [i \in DOMAIN text |-> LowerPiece(text[i])]

\* str::contains
Contains(text, pat) ==
    \E i \in 0..(Len(text) - Len(pat)) : SubSeq(text, i + 1, i + Len(pat)) = pat

\* obj.get(key) is Some(Value::String(_))
HasString(obj, key) == key \in DOMAIN obj /\ obj[key][1] = "string"

RECURSIVE ExtractTextFromAdf(_), ExtractTextFromItems(_)

\* arr.iter().map(extract_text_from_adf).collect()
ExtractTextFromItems(items) ==
    IF items = <<>> THEN <<>>
    ELSE ExtractTextFromAdf(Head(items)) \o ExtractTextFromItems(Tail(items))

\* extract_text_from_adf
ExtractTextFromAdf(value) ==
    CASE value[1] = "string" -> value[2]
      [] value[1] = "object" ->
            LET obj == value[2]
                text == IF HasString(obj, "text") THEN obj["text"][2] ELSE <<>>
                mention ==
                    IF /\ HasString(obj, "type")
                       /\ obj["type"][2] = <<"mention">>
                       /\ "attrs" \in DOMAIN obj
                       /\ obj["attrs"][1] = "object"
                       /\ HasString(obj["attrs"][2], "text")
                    THEN obj["attrs"][2]["text"][2]
                    ELSE <<>>
                content ==
                    IF "content" \in DOMAIN obj /\ obj["content"][1] = "array"
                    THEN ExtractTextFromItems(obj["content"][2])
                    ELSE <<>>
            IN text \o mention \o content
      [] value[1] = "array" -> ExtractTextFromItems(value[2])
      [] OTHER -> <<>>

\* JiraComment::mentions_bot
MentionsBot(body) ==
    LET text == ExtractTextFromAdf(body) IN
    \/ Contains(TextToLowercase(text), TextToLowercase(BOT_MENTION))
    \/ Contains(text, BOT_ACCOUNT_ID)

\* Comment bodies in Atlassian Document Format: a document of one paragraph
\* of one or two inline nodes (text, mention), and bodies that are plain text.
Object2(k1, v1, k2, v2) == JObject([k \in {k1, k2} |-> IF k = k1 THEN v1 ELSE v2])
TextNode(s) == Object2("type", JString(<<"text">>), "text", JString(s))
MentionNode(id, s) ==
    Object2("type", JString(<<"mention">>),
            "attrs", Object2("id", JString(id), "text", JString(s)))
Paragraph(c) == Object2("type", JString(<<"paragraph">>), "content", JArray(c))
Doc(c) == Object2("type", JString(<<"doc">>), "content", JArray(c))

InlineNodes ==
    {TextNode(s) : s \in {<<"please fix">>, <<"@claude">>, <<"-agent">>,
                           <<"@CLAUDE", "-Agent">>, BOT_ACCOUNT_ID}}
    \cup {MentionNode(id, s) :
            id \in {BOT_ACCOUNT_ID, <<"5b10ac8d82e05b22">>},
            s \in {BOT_MENTION, <<"@Claude Agent">>, <<"~accountid:">> \o BOT_ACCOUNT_ID}}

CommentBodies ==
    {Doc(<<Paragraph(<<n>>)>>) : n \in InlineNodes}
    \cup {Doc(<<Paragraph(<<n, m>>)>>) : n \in InlineNodes, m \in InlineNodes}
    \cup {JString(s) : s \in {BOT_MENTION, <<"please fix">>}}
    \cup {JNull}

MentionsBotCall(body) == Call("mentions_bot", body, MentionsBot(body))

MentionNext == \E body \in CommentBodies : MentionsBotCall(body)

MentionSpec == Init /\ [][MentionNext]_vars

\* --------------------------------------------------------- verify_signature
\* Strings are sequences of characters here, since single bytes of a
\* signature matter.
HEX_CHARS_LOWER ==
    <<"0", "1", "2", "3", "4", "5", "6", "7", "8", "9", "a", "b", "c", "d", "e", "f">>

UpperHex == [c \in {"a", "b", "c", "d", "e", "f"} |->
                CASE c = "a" -> "A" [] c = "b" -> "B" [] c = "c" -> "C"
                  [] c = "d" -> "D" [] c = "e" -> "E" [] c = "f" -> "F"]

\* hex::encode: two lower-case digits per byte
RECURSIVE HexEncode(_)
HexEncode(bytes) ==
    IF bytes = <<>> THEN <<>>
    ELSE <<HEX_CHARS_LOWER[(Head(bytes) \div 16) + 1],
           HEX_CHARS_LOWER[(Head(bytes) % 16) + 1]>> \o HexEncode(Tail(bytes))

\* The value of a hex digit of either case, -1 for any other character.
HexVal(c) ==
    IF \E i \in 1..16 : HEX_CHARS_LOWER[i] = c
    THEN (CHOOSE i \in 1..16 : HEX_CHARS_LOWER[i] = c) - 1
    ELSE IF \E l \in DOMAIN UpperHex : UpperHex[l] = c
    THEN (CHOOSE i \in 1..16 :
            HEX_CHARS_LOWER[i] = (CHOOSE l \in DOMAIN UpperHex : UpperHex[l] = c)) - 1
    ELSE -1

\* hex::decode: an error for an odd length or a character that is no hex
\* digit; digits of both cases are taken.
HexDecode(str) ==
    IF Len(str) % 2 # 0 \/ \E i \in 1..Len(str) : HexVal(str[i]) = -1
    THEN [ok |-> FALSE, bytes |-> <<>>]
    ELSE [ok |-> TRUE,
          bytes |-> [i \in 1..(Len(str) \div 2) |->
                        16 * HexVal(str[2 * i - 1]) + HexVal(str[2 * i])]]

\* str::strip_prefix
StripPrefix(str, prefix) ==
    IF Len(str) >= Len(prefix) /\ SubSeq(str, 1, Len(prefix)) = prefix
    THEN Some(SubSeq(str, Len(prefix) + 1, Len(str)))
    ELSE None

Sha256Prefix == <<"s", "h", "a", "2", "5", "6", "=">>

SigSecrets == {"secret-a", "secret-b"}
SigBodies == {"body-1", "body-2"}

\* HMAC-SHA256 cut to two bytes: a different tag for every key and body.
HmacSha256(key, body) ==
    CASE key = "secret-a" /\ body = "body-1" -> <<171, 18>>
      [] key = "secret-a" /\ body = "body-2" -> <<18, 205>>
      [] key = "secret-b" /\ body = "body-1" -> <<52, 86>>
      [] key = "secret-b" /\ body = "body-2" -> <<239, 1>>

\* github::verify_signature and sentry::verify_signature, which are the same
\* code: the given hex is decoded and the bytes are handed to verify_slice.
VerifyDecoded(key, body, signature) ==
    LET sig_hex == StripPrefix(signature, Sha256Prefix) IN
    IF ~sig_hex.some THEN FALSE
    ELSE LET expected == HexDecode(sig_hex.v) IN
         IF ~expected.ok THEN FALSE
         ELSE HmacSha256(key, body) = expected.bytes

GithubVerifySignature(key, body, signature) == VerifyDecoded(key, body, signature)
SentryVerifySignature(key, body, signature) == VerifyDecoded(key, body, signature)

\* jira::verify_signature: the computed tag is encoded and compared with the
\* given hex, character by character.
JiraVerifySignature(key, body, signature) ==
    LET expected == StripPrefix(signature, Sha256Prefix) IN
    IF ~expected.some THEN FALSE
    ELSE LET computed == HexEncode(HmacSha256(key, body)) IN
         /\ Len(computed) = Len(expected.v)
         /\ \A i \in 1..Len(computed) : computed[i] = expected.v[i]

\* "sha256=" || hex(HMAC-SHA256(key, body))
ValidSignature(key, body) == Sha256Prefix \o HexEncode(HmacSha256(key, body))

\* The characters a byte of a signature is changed into.
SigChars ==
    {HEX_CHARS_LOWER[i] : i \in 1..16}
    \cup {UpperHex[l] : l \in DOMAIN UpperHex}
    \cup {"g", "s", "S", "=", " "}

\* The strings that differ from `str` in exactly one byte.
Perturbations(str) ==
    {[str EXCEPT ![i] = c] : i \in 1..Len(str), c \in SigChars} \ {str}

\* Signatures that do not start with sha256=.
Unprefixed(key, body) ==
    {HexEncode(HmacSha256(key, body)),
     <<"s", "h", "a", "1", "=">> \o HexEncode(HmacSha256(key, body)),
     <<>>}

Signatures(key, body) ==
    {ValidSignature(key, body)}
    \cup Perturbations(ValidSignature(key, body))
    \cup Unprefixed(key, body)

SigArgs(key, body, signature) ==
    [secret |-> key, body |-> body, signature |-> signature]

GithubVerifyCall(key, body, signature) ==
    Call("github::verify_signature", SigArgs(key, body, signature),
         GithubVerifySignature(key, body, signature))

SentryVerifyCall(key, body, signature) ==
    Call("sentry::verify_signature", SigArgs(key, body, signature),
         SentryVerifySignature(key, body, signature))

JiraVerifyCall(key, body, signature) ==
    Call("jira::verify_signature", SigArgs(key, body, signature),
         JiraVerifySignature(key, body, signature))

SignatureNext ==
    \E key \in SigSecrets, body \in SigBodies :
        \E signature \in Signatures(key, body) :
            \/ GithubVerifyCall(key, body, signature)
            \/ SentryVerifyCall(key, body, signature)
            \/ JiraVerifyCall(key, body, signature)

SignatureSpec == Init /\ [][SignatureNext]_vars

\* ------------------------------------------------- JobPayload, decoded
\* JSON objects handed to the decoder: with each "type" tag, a tag that names
\* no variant, or none, and with any of the fields of the three structs.
TypeTags == {"review", "sentry_fix", "jira_ticket", "bogus"}

JsonValues(key) ==
    CASE key = "type" -> TypeTags
      [] key = "mr_iid" -> {"42"}
      [] key = "action" -> {"open", "lint_fix"}
      [] key = "short_id" -> {"WEB-1"}
      [] key = "issue_key" -> {"PROJ-1"}

EnvelopeObjects ==
    {obj : obj \in
        UNION {{f \in [keys -> TypeTags \cup {"42", "open", "lint_fix", "WEB-1", "PROJ-1"}] :
                    \A k \in keys : f[k] \in JsonValues(k)} :
               keys \in SUBSET {"type", "mr_iid", "action", "short_id", "issue_key"}}}

EnvelopePayloads == {ReviewJob, LintFixJob, SentryFixJob, JiraTicketJob}

\* serde_json::from_value::<JobPayload>
DecodeCall(json) == Call("JobPayload::deserialize", json, PayloadFromJson(json))

\* serde_json::to_string, then serde_json::from_str
RoundTripCall(p) == Call("to_string/from_str", p, PayloadFromJson(PayloadToJson(p)))

EnvelopeNext ==
    \/ \E json \in EnvelopeObjects : DecodeCall(json)
    \/ \E p \in EnvelopePayloads : RoundTripCall(p)

EnvelopeSpec == Init /\ [][EnvelopeNext]_vars

\* ------------------------------------------------------- Queue::list_failed
\* LRANGE key start stop: both ends are included, a negative index counts
\* from the end of the list, an index beyond the end stands for the end.
LRange(list, start, stop) ==
    LET len == Len(list)
        from == IF start < 0 THEN (IF len + start < 0 THEN 0 ELSE len + start) ELSE start
        to == IF stop < 0 THEN len + stop ELSE (IF stop >= len THEN len - 1 ELSE stop)
    IN IF from > to \/ from >= len THEN <<>> ELSE SubSeq(list, from + 1, to + 1)

\* list_failed: conn.lrange(FAILED_KEY, 0, (limit as isize) - 1), each entry
\* decoded.
ListFailed(list, limit) ==
    LET items == LRange(list, 0, limit - 1)
    IN [i \in 1..Len(items) |-> FailedFromJson(items[i])]

\* The errors mark_failed is called with.
FailureTexts == {"Job failed", "Spawn error", "Wait error"}

\* The failed list after items 1..n have failed once each, in this order.
FailedLists ==
    UNION {{[i \in 1..n |-> FailedToJson(NewFailedItem(NewQueueItem(i, ReviewJob), texts[i]))] :
                texts \in [1..n -> FailureTexts]} : n \in 0..MaxFailed}

ListFailedInit ==
    /\ failed \in FailedLists
    /\ pending = <<>>
    /\ processing = EmptyHash
    /\ jobs = EmptyHash
    /\ pc = "start"
    /\ cur = NoItem
    /\ errmsg = ""
    /\ elapsed = 0
    /\ nfc = 0
    /\ hpc = [h \in Handlers |-> "idle"]
    /\ hjson = [h \in Handlers |-> NoItem]
    /\ hremoved = [h \in Handlers |-> 0]
    /\ nextId = Len(failed) + 1
    /\ pushedPayload = [i \in 1..Len(failed) |-> ReviewJob]
    /\ popOrder = [i \in 1..Len(failed) |-> i]
    /\ retries = 0
    /\ orphaned = {}
    /\ running = FALSE
    /\ stopped = FALSE
    /\ TokenIdle /\ WebIdle /\ CallIdle /\ ClientIdle /\ WorkerIdle

ListFailedOk(limit) ==
    Call("list_failed", [limit |-> limit],
         [ok |-> TRUE, items |-> ListFailed(failed, limit)])

\* The store answers LRANGE with an error.
ListFailedErr(limit) ==
    Call("list_failed", [limit |-> limit], [ok |-> FALSE, items |-> <<>>])

ListFailedNext ==
    \E limit \in 0..(MaxFailed + 1) :
        \/ ListFailedOk(limit)
        \/ ListFailedErr(limit)

ListFailedSpec == ListFailedInit /\ [][ListFailedNext]_vars


\* ======================================================= the Sentry client
nonClientVars == <<queueVars, tokenVars, webVars, callVars, workerVars>>

\* 2u64.pow(n)
Pow2(n) == IF n = 0 THEN 1 ELSE IF n = 1 THEN 2 ELSE IF n = 2 THEN 4 ELSE 8

\* A reqwest::Error as send() returns it: what went wrong, what is_timeout()
\* and is_connect() say of it, and what its Debug output shows.
ReqwestError(cause, is_timeout, is_connect, debug) ==
    [cause |-> cause, is_timeout |-> is_timeout, is_connect |-> is_connect, debug |-> debug]

ReqwestErrors ==
    { ReqwestError("timeout", TRUE, FALSE, "TimedOut"),
      ReqwestError("timeout", FALSE, FALSE, "os error 110"),
      ReqwestError("timeout", FALSE, FALSE, "Connection timed out"),
      ReqwestError("connect", FALSE, TRUE, "Connection refused"),
      ReqwestError("redirect", FALSE, FALSE, "too many redirects"),
      ReqwestError("builder", FALSE, FALSE, "invalid header value") }

\* The HTTP statuses of the responses: send() returns any of them as Ok.
HttpStatuses == {200, 429, 503}

IsSuccess(status) == 200 <= status /\ status <= 299

Ok(v) == <<"Ok", v>>
Err(e) == <<"Err", e>>

\* A client that takes every error for a transient one.
IsRetryable_Always(e) == TRUE

\* is_retryable
IsRetryable(e) ==
    \/ e.is_timeout
    \/ e.is_connect
    \/ e.debug \in {"os error 110", "Connection timed out"}

\* SentryClient::get calls send_with_retry: the loop starts with attempt 0
Get ==
    /\ cpc = "idle"
    /\ cpc' = "send"
    /\ attempt' = 0
    /\ last_error' = None
    /\ UNCHANGED <<sent, got, clog>>
    /\ UNCHANGED nonClientVars

\* make_request().await answers Ok(resp): return Ok(resp)
SendOk(status) ==
    /\ cpc = "send"
    /\ clog' = Append(clog, <<"send", Ok(status)>>)
    /\ sent' = Ok(status)
    /\ cpc' = "returned"
    /\ UNCHANGED <<attempt, last_error, got>>
    /\ UNCHANGED nonClientVars

\* make_request().await answers Err(err): sleep and go on, or return Err(err)
SendErr(e) ==
    /\ cpc = "send"
    /\ clog' = Append(clog, <<"send", Err(e)>>)
    /\ IF attempt < MAX_RETRIES /\ IsRetryable(e)
       THEN /\ cpc' = "sleep"
            /\ last_error' = Some(e)
            /\ UNCHANGED sent
       ELSE /\ cpc' = "returned"
            /\ sent' = Err(e)
            /\ UNCHANGED last_error
    /\ UNCHANGED <<attempt, got>>
    /\ UNCHANGED nonClientVars

\* tokio::time::sleep(delay) ends; the next round of `for attempt in
\* 0..=MAX_RETRIES`, or after the last one Err(last_error)
Backoff ==
    /\ cpc = "sleep"
    /\ clog' = Append(clog, <<"sleep", INITIAL_BACKOFF_SECS * Pow2(attempt)>>)
    /\ IF attempt + 1 <= MAX_RETRIES
       THEN /\ attempt' = attempt + 1
            /\ cpc' = "send"
            /\ UNCHANGED sent
       ELSE /\ cpc' = "returned"
            /\ sent' = Err(last_error.v)
            /\ UNCHANGED attempt
    /\ UNCHANGED <<last_error, got>>
    /\ UNCHANGED nonClientVars

\* get: the error with its context, "Sentry API error" for a status that is
\* not a success, the parsed body otherwise
GetReturn ==
    /\ cpc = "returned"
    /\ cpc' = "done"
    /\ got' = IF sent[1] = "Err" THEN Err("Failed to send Sentry API request")
              ELSE IF ~IsSuccess(sent[2]) THEN Err("Sentry API error")
              ELSE Ok("json")
    /\ UNCHANGED <<attempt, last_error, sent, clog>>
    /\ UNCHANGED nonClientVars

ClientNext ==
    \/ Get
    \/ \E status \in HttpStatuses : SendOk(status)
    \/ \E e \in ReqwestErrors : SendErr(e)
    \/ Backoff
    \/ GetReturn

\* Every request is answered (the client is built with a timeout of 30 s) or
\* fails, and every sleep ends.
ClientSpec == Init /\ [][ClientNext]_vars /\ WF_vars(ClientNext)


\* ================================================================ the worker
\* What the worker leaves alone: everything but its workload's status.
nonWorkerVars == <<storeVars, schedVars, retryVars, histVars,
                   tokenVars, webVars, callVars, clientVars>>

UpdateJob == [variant |-> "Review", fields |-> [mr_iid |-> "42", action |-> "update"]]

\* The envelopes given to the workers.
WorkerPayloads == {ReviewJob, LintFixJob, UpdateJob, SentryFixJob}

\* main, step by step; each step but get_diff_shas ends main with `?` when it
\* fails.
WorkerSteps ==
    <<"decode_payload", "token", "create_dir_all", "git_clone", "git_fetch", "get_diff",
      "get_changed_files", "get_diff_shas", "prompt", "run_claude">>

StepIndex(step) == CHOOSE i \in 1..Len(WorkerSteps) : WorkerSteps[i] = step

\* The workload whose pod runs.
RunningJob == CHOOSE n \in DOMAIN jobs : jobs[n] = "active"

\* REVIEW_PAYLOAD as spawn_job set it: the envelope of the item, serialized
\* (and base64-encoded, which decode_payload undoes).
ReviewPayloadEnv(n) == PayloadToJson(pushedPayload[n[3]])

\* decode_payload: serde_json::from_slice::<ReviewPayload>
DecodePayload(json) == ParseStruct("Review", json)

\* A pod whose exit code is not looked at.
JobOutcome_Succeeded(code) == "succeeded"

\* backoff_limit 0, restart policy Never: the workload fails with its one
\* pod, and succeeds when the pod exits with 0.
JobOutcome(code) == IF code = 0 THEN "succeeded" ELSE "failed"

\* The process ends with this code.
Exit(code) ==
    /\ wstep' = "exited"
    /\ exit_code' = code
    /\ jobs' = [jobs EXCEPT ![RunningJob] = JobOutcome(code)]

\* The pod runs: "Claude Agent Worker starting"
WorkerStart ==
    /\ wstep = "idle"
    /\ ActiveJobs(jobs) # {}
    /\ wstep' = "decode_payload"
    /\ UNCHANGED <<jobs, exit_code, wdone>>
    /\ UNCHANGED nonWorkerVars

\* let payload = decode_payload()?
DecodePayloadStep ==
    /\ wstep = "decode_payload"
    /\ ActiveJobs(jobs) # {}
    /\ IF DecodePayload(ReviewPayloadEnv(RunningJob)) # DecodeErr
       THEN /\ wstep' = "token"
            /\ wdone' = wdone \cup {"decode_payload"}
            /\ UNCHANGED <<jobs, exit_code>>
       ELSE /\ Exit(1)
            /\ UNCHANGED wdone
    /\ UNCHANGED nonWorkerVars

\* The steps between the decoding and the prompt.
PlainSteps ==
    {"token", "create_dir_all", "git_clone", "git_fetch", "get_diff", "get_changed_files",
     "get_diff_shas"}

StepOk ==
    /\ wstep \in PlainSteps
    /\ ActiveJobs(jobs) # {}
    /\ wstep' = WorkerSteps[StepIndex(wstep) + 1]
    /\ wdone' = wdone \cup {wstep}
    /\ UNCHANGED <<jobs, exit_code>>
    /\ UNCHANGED nonWorkerVars

\* `?` on an Err: main returns it, the process exits with 1
StepErr ==
    /\ wstep \in PlainSteps \ {"get_diff_shas"}
    /\ ActiveJobs(jobs) # {}
    /\ Exit(1)
    /\ UNCHANGED wdone
    /\ UNCHANGED nonWorkerVars

\* "Failed to compute diff SHAs, inline comments will not work"
DiffShasErr ==
    /\ wstep = "get_diff_shas"
    /\ ActiveJobs(jobs) # {}
    /\ wstep' = "prompt"
    /\ UNCHANGED <<jobs, exit_code, wdone>>
    /\ UNCHANGED nonWorkerVars

WorkerAction == DecodePayload(ReviewPayloadEnv(RunningJob)).fields.action

\* The prompt is built; for "update" the discussions were fetched, for
\* "lint_fix" the linters had something to say.
PromptOk ==
    /\ wstep = "prompt"
    /\ ActiveJobs(jobs) # {}
    /\ wstep' = "run_claude"
    /\ wdone' = wdone \cup {"prompt"}
    /\ UNCHANGED <<jobs, exit_code>>
    /\ UNCHANGED nonWorkerVars

\* fetch_unresolved_discussions(..)? or run_linters(..)? returns an Err
PromptErr ==
    /\ wstep = "prompt"
    /\ ActiveJobs(jobs) # {}
    /\ WorkerAction \in {"update", "lint_fix"}
    /\ Exit(1)
    /\ UNCHANGED wdone
    /\ UNCHANGED nonWorkerVars

\* "Linters produced no output, skipping lint-fix": return Ok(())
LintFixSkipped ==
    /\ wstep = "prompt"
    /\ ActiveJobs(jobs) # {}
    /\ WorkerAction = "lint_fix"
    /\ Exit(0)
    /\ UNCHANGED wdone
    /\ UNCHANGED nonWorkerVars

\* run_claude: the agent exits with 0, "Review completed"
RunClaudeOk ==
    /\ wstep = "run_claude"
    /\ ActiveJobs(jobs) # {}
    /\ wdone' = wdone \cup {"run_claude"}
    /\ Exit(0)
    /\ UNCHANGED nonWorkerVars

\* run_claude: the agent could not be started or exits non-zero
RunClaudeErr ==
    /\ wstep = "run_claude"
    /\ ActiveJobs(jobs) # {}
    /\ Exit(1)
    /\ UNCHANGED wdone
    /\ UNCHANGED nonWorkerVars

WorkerStep ==
    \/ WorkerStart
    \/ DecodePayloadStep
    \/ StepOk \/ StepErr \/ DiffShasErr
    \/ PromptOk \/ PromptErr \/ LintFixSkipped
    \/ RunClaudeOk \/ RunClaudeErr

\* One item, its workload and the worker in it, and the scheduler waiting.
WorkerNext ==
    \/ \E p \in WorkerPayloads : nextId = 1 /\ PushOk(p)
    \/ SchedulerStepOnce
    \/ \E n \in DOMAIN jobs : JobStart(n) \/ JobGone(n)
    \/ WorkerStep

\* The run task is scheduled again and again.
WorkerSpec == Init /\ [][WorkerNext]_vars /\ WF_vars(SchedulerStepOnce)


\* ============================================ entries written by other hands
\* The pending list is a key of a store that other writers reach as well: an
\* entry as this program writes it, and one whose payload carries a type tag
\* this program does not know.
WrittenEntry(id) == ItemToJson(NewQueueItem(id, CHOOSE p \in PayloadsFor(id) : TRUE))
ForeignEntry(id) == [id |-> id, payload |-> [type |-> "bogus"], attempts |-> 0]

PendingLists ==
    {<<>>}
    \cup {<<a>> : a \in {WrittenEntry(1), ForeignEntry(1)}}
    \cup {<<a, b>> : a \in {WrittenEntry(1), ForeignEntry(1)},
                     b \in {WrittenEntry(2), ForeignEntry(2)}}

\* The server starts on a store that holds such a list.
PopInit ==
    /\ pending \in PendingLists
    /\ processing = EmptyHash
    /\ failed = <<>>
    /\ jobs = EmptyHash
    /\ pc = "start"
    /\ cur = NoItem
    /\ errmsg = ""
    /\ elapsed = 0
    /\ nfc = 0
    /\ hpc = [h \in Handlers |-> "idle"]
    /\ hjson = [h \in Handlers |-> NoItem]
    /\ hremoved = [h \in Handlers |-> 0]
    /\ nextId = Len(pending) + 1
    /\ pushedPayload = [i \in 1..Len(pending) |->
                          IF ItemDecodes(pending[i]) THEN PayloadFromJson(pending[i].payload)
                          ELSE NoPayload]
    /\ popOrder = <<>>
    /\ retries = 0
    /\ orphaned = {}
    /\ running = FALSE
    /\ stopped = FALSE
    /\ TokenIdle /\ WebIdle /\ CallIdle /\ ClientIdle /\ WorkerIdle

PopNext ==
    \/ SchedulerStepOnce
    \/ PopPanic
    \/ \E n \in DOMAIN jobs :
        \/ JobStart(n)
        \/ JobFinish(n)
        \/ JobGone(n)

PopSpec == PopInit /\ [][PopNext]_vars

\* ------------------------------------------------------------------ claims
Range(list) == {list[i] : i \in 1..Len(list)}

PendingIds(pd) == {ItemFromJson(j).id : j \in Range(pd)}
FailedIds(fl) == {FailedFromJson(j).item.id : j \in Range(fl)}

\* In how many of the pending list, the processing hash and the failed list
\* an entry for `id` is found.
Places(pd, pr, fl, id) ==
    (IF id \in PendingIds(pd) THEN 1 ELSE 0)
    + (IF id \in DOMAIN pr THEN 1 ELSE 0)
    + (IF id \in FailedIds(fl) THEN 1 ELSE 0)

\* `id` is in the hands of an operation under way: of the scheduler between
\* pop and settlement, or of retry_failed between its LREM and its RPUSH.
Held(c, hp, hj, id) ==
    \/ c.id = id
    \/ \E h \in Handlers : hp[h] = "rpush" /\ FailedFromJson(hj[h]).item.id = id

\* The scheduler's iteration for a popped item ends.
IterationEnds ==
    \/ MarkProcessingErr
    \/ CompleteOk \/ CompleteErr
    \/ FailHdelErr \/ FailRpushOk \/ FailRpushErr

\* C1: every pushed, unsettled item is in exactly one of pending, processing
\* and failed: it is never in two of them, and an item that is in one of them
\* (or in the hands of pop+mark_processing, mark_failed or retry_failed, the
\* claim's transitions) leaves all three only by mark_completed.
C1_ExactlyOnePlace ==
    [][\A id \in Ids :
        /\ Places(pending', processing', failed', id) <= 1
        /\ ( /\ Places(pending, processing, failed, id) >= 1 \/ Held(cur, hpc, hjson, id)
             /\ Places(pending', processing', failed', id) = 0
             /\ ~Held(cur', hpc', hjson', id) )
           => (pc = "complete" /\ cur.id = id)]_vars

\* C2: items are popped for the first time in the order in which push
\* returned their ids (1, 2, ...): n uncontended pops after n pushes, no retry
\* in between, return them in push order.
C2_FIFO == \A k \in 1..Len(popOrder) : popOrder[k] = k

C2_Witness == Len(popOrder) >= 2 /\ retries = 0 /\ pc = "mark" /\ cur.id = 2

\* C3: the iteration of every popped item ends with exactly one successful
\* mark_completed or mark_failed, after which the processing hash does not
\* contain the item's id.
C3_Settlement ==
    [][IterationEnds => (CompleteOk \/ FailRpushOk) /\ cur.id \notin DOMAIN processing']_vars

\* C4: at no time are two workloads labelled app=claude-review active.
C4_ConcurrencyCap == Cardinality(ActiveJobs(jobs)) <= 1

\* C5 as stated: the processing hash never contains more than one item.
C5_AtMostOneProcessing == Cardinality(DOMAIN processing) <= 1

\* C5 as amended: the processing hash contains at most one item that is not
\* an orphan, namely the item the scheduler is executing; every other entry
\* was left by a crash between mark_processing and settlement or by a settle
\* call whose HDEL failed.
C5_OneBesideOrphans ==
    (DOMAIN processing) \ orphaned \subseteq (IF InFlight THEN {cur.id} ELSE {})

C5_Witness ==
    /\ Cardinality(DOMAIN processing) = 2
    /\ InFlight
    /\ cur.id \in DOMAIN processing
    /\ cur.id \notin orphaned

\* C6: a crash after pop and before settlement leaves the popped item in the
\* processing hash.
C6_CrashLeavesOrphan == [][Crash /\ cur.id # 0 => cur.id \in DOMAIN processing']_vars

\* C7: the retry of an item's first failure removes its entry from the failed
\* list, which then holds no entry for the id, and the retry_failed that
\* returns true leaves at the tail of pending a Queue Item with that id whose
\* envelope is the one given to push.
C7_RetryRoundTrip ==
    [][\A h \in Handlers :
        LET f == FailedFromJson(hjson[h]) IN
        /\ (RetryLremOk(h) /\ hjson[h] \in Range(failed) /\ f.item.attempts = 1)
            => f.item.id \notin FailedIds(failed')
        /\ RetryRpushOk(h)
            => /\ pending' # <<>>
               /\ ItemFromJson(pending'[Len(pending')]).id = f.item.id
               /\ ItemFromJson(pending'[Len(pending')]).payload = pushedPayload[f.item.id]]_vars

C7_Witness ==
    /\ retries = 1
    /\ pending # <<>>
    /\ ItemFromJson(pending[Len(pending)]).attempts = 1
    /\ ItemFromJson(pending[Len(pending)]).id \notin FailedIds(failed)
    /\ \A h \in Handlers : hpc[h] = "idle"

\* C8: every entry of pending, processing and failed, and the item the
\* scheduler holds, carries the envelope that was given to push under its id.
C8_EnvelopeImmutable ==
    /\ \A j \in Range(pending) : ItemFromJson(j).payload = pushedPayload[j.id]
    /\ \A k \in DOMAIN processing :
        /\ processing[k].id = k
        /\ ItemFromJson(processing[k]).payload = pushedPayload[k]
    /\ \A j \in Range(failed) : FailedFromJson(j).item.payload = pushedPayload[j.item.id]
    /\ cur.id # 0 => cur.payload = pushedPayload[cur.id]

C8_Witness ==
    /\ \E j \in Range(pending) : j.attempts >= 1 /\ j.id = 2
    /\ \E j \in Range(failed) : j.item.id = 1

\* C9: the Failed Items of one id carry strictly increasing attempts.
C9_AttemptsIncrease ==
    \A i, j \in 1..Len(failed) :
        (i < j /\ failed[i].item.id = failed[j].item.id)
            => failed[i].item.attempts < failed[j].item.attempts

\* C10: an execution that does not succeed appends exactly one Failed Item, a
\* successful one appends none, and the scheduler never puts an item back on
\* pending.
C10_OneFailedItemPerFailure ==
    [][/\ (FailHdelErr \/ FailRpushOk \/ FailRpushErr)
            => failed' = Append(failed, FailedToJson(NewFailedItem(cur, errmsg)))
       /\ (CompleteOk \/ CompleteErr) => failed' = failed
       /\ SchedulerStep => (pending' = pending \/ pending' = Tail(pending))]_vars

\* C11: a refresh that succeeds writes the new tokens to the durable secret
\* before it updates the cache and returns, and when it returns the secret's
\* refresh-token is the refresh token its exchange returned.
C11_PersistBeforeServe ==
    [][\A c \in Callers :
        CacheAndReturn(c)
            => /\ tloc[c].access \in persisted
               /\ secret.refresh = tloc[c].new_refresh]_vars

\* C12: at no time are two refresh-token exchanges in flight.
C12_SingleFlight == Cardinality({c \in Callers : tpc[c] = "exchange"}) <= 1

\* C13: when the exchange succeeds and the write of the durable secret fails,
\* the call returns an error and its failing step leaves the cache as it is;
\* the cache never holds, and no call ever returns, an access token that was
\* not written to the secret.
C13_WriteFailureKeepsCache ==
    [][/\ \A c \in Callers :
            /\ (\E patch, create \in {"ok", "not_found", "error"} :
                    /\ UpdateSecret(c, patch, create)
                    /\ ~(patch = "ok" \/ (patch = "not_found" /\ create = "ok")))
                => /\ cached_token' = cached_token
                   /\ tres'[c] = ErrResult("Kubernetes")
                   /\ tpc'[c] = "idle"
            /\ tres'[c].ok => tres'[c].token \in persisted'
       /\ cached_token' # NoCache => cached_token'.token \in persisted']_vars

C13_Witness ==
    /\ \E c \in Callers : tres[c] = ErrResult("Kubernetes")
    /\ upstream.issued = 2
    /\ cached_token # NoCache
    /\ cached_token.token = AccessToken(1)
    /\ secret.refresh = RefreshToken(1)

\* C14: get_access_token returns the cached token if and only if its expiry
\* is at least 300 seconds after now, and refreshes otherwise.
C14_FreshIffAtLeastBuffer ==
    [][\A c \in Callers :
        LET atLeast == /\ cached_token # NoCache
                       /\ cached_token.expires_at >= now + ExpiryBufferSecs
        IN  /\ GetCached(c) => atLeast
            /\ GetStale(c) => ~atLeast]_vars

\* C15: the bootstrap refresh token is sent to the token endpoint only when
\* the durable secret is absent or holds an empty refresh-token.
C15_BootstrapOnlyWhenSecretBlank ==
    [][\A c \in Callers :
        (tpc[c] = "read" /\ tpc'[c] = "exchange" /\ tloc'[c].refresh = BootstrapToken)
            => (~secret.present \/ secret.refresh = EmptyToken)]_vars

\* C16: a call that finds a fresh cached token returns it and changes neither
\* the cache, the secret nor the token endpoint, and starts no refresh; a
\* token cached with expires_in 3600 is found fresh by every call made less
\* than 55 minutes (3300 s) later.
C16_CachedHitIsPure ==
    [][\A c \in Callers :
        /\ GetCached(c)
            => /\ tres'[c] = OkResult(cached_token.token)
               /\ UNCHANGED <<cached_token, secret, upstream, tpc, tloc, persisted>>
        /\ GetStale(c)
            => ~(/\ cached_token # NoCache
                 /\ now - (cached_token.expires_at - 3600) < 3300)]_vars

C16_Witness ==
    /\ now = 3299
    /\ upstream.issued = 1
    /\ cached_token = [token |-> AccessToken(1), expires_at |-> 3600]
    /\ \A c \in Callers : tpc[c] = "idle" /\ tres[c] = OkResult(AccessToken(1))

\* The request carries a wrong or missing credential for a route that checks
\* one (the Sentry and Jira webhooks check theirs when the secret is set).
AuthFails(r) ==
    /\ r.auth = "bad"
    /\ r.route = "webhook/sentry" => config.sentry_webhook_secret
    /\ r.route = "webhook/jira" => config.jira_webhook_secret

\* C17: a request that fails authentication is answered with 401, after no
\* call to another service, and changes nothing in the queue.
C17_AuthFailureIs401 ==
    [][\A w \in WebTasks :
        /\ \A r \in Requests :
            (Receive(w, r) /\ AuthFails(r))
                => /\ lastResp' = Unauthorized
                   /\ UNCHANGED <<pending, processing, failed, wpc, wjob>>
        /\ RetryUnauthorized(w)
            => /\ lastResp' = Unauthorized
               /\ UNCHANGED <<pending, processing, failed, hpc, hjson>>]_vars

\* C18: a response is 202 "queued" with a job_id exactly when the handler
\* pushed one item onto pending, the item with that id; every other response
\* leaves pending as it was.
C18_QueuedIffPushed ==
    [][/\ (lastResp' # lastResp /\ lastResp'.status = 202)
            => /\ lastResp'.kind = "queued"
               /\ Len(pending') = Len(pending) + 1
               /\ SubSeq(pending', 1, Len(pending)) = pending
               /\ ItemFromJson(pending'[Len(pending')]).id = lastResp'.job_id
       /\ pending' # pending
            => /\ lastResp' # lastResp
               /\ lastResp'.status = 202
               /\ lastResp'.kind = "queued"
       /\ lastResp'.kind = "queued" => lastResp'.status = 202]_vars

C18_Witness ==
    /\ lastResp.status = 202
    /\ lastResp.job_id = 2
    /\ Len(pending) = 2
    /\ ItemFromJson(pending[2]).id = 2
    /\ ItemFromJson(pending[2]).payload = pushedPayload[2]

\* The fix request gets as far as the branch-existence query.
ReachesBranchQuery(r) ==
    /\ r.route \in {"webhook/sentry", "webhook/jira", "api/sentry-fix", "api/jira-fix"}
    /\ r.auth = "ok" /\ r.body = "ok" /\ r.event = "act" /\ r.mapped
    /\ r.route = "webhook/sentry" => config.sentry_webhook_secret
    /\ r.route = "api/sentry-fix" => r.fetch = "ok"

BranchOfRoute(route) ==
    IF route \in {"webhook/sentry", "api/sentry-fix"}
    THEN FixBranch("sentry-fix", SentryIssue)
    ELSE FixBranch("jira-fix", JiraIssue)

\* C19: a fix request made while its fix branch exists is answered "skipped"
\* and pushes nothing, whatever the branch-existence query answers.
C19_ExistingBranchSkips ==
    [][\A w \in WebTasks, r \in Requests :
        (Receive(w, r) /\ ReachesBranchQuery(r) /\ BranchOfRoute(r.route) \in branches)
            => /\ lastResp'.kind = "skipped"
               /\ UNCHANGED <<wpc, wjob, pending>>]_vars

\* C20: over all deliveries of the Sentry or Jira webhook for one issue, at
\* most one job is enqueued.
C20_OneJobPerIssue == \A i \in DOMAIN delivered : delivered[i] <= 1

\* The conditions under which a merge_request event is to be reviewed.
MergeRequestMatches(ev) ==
    /\ ev.state \in {"opened", "reopened"}
    /\ ev.draft # Some(TRUE)
    /\ ev.work_in_progress # Some(TRUE)
    /\ ev.action \in {Some("open"), Some("update"), Some("reopen")}

SkipReviewLabelled(ev) ==
    ev.labels.some /\ "skip-review" \in {ev.labels.v[i] : i \in DOMAIN ev.labels.v}

\* What the conditions of a merge_request event call for.
ExpectedOutcome(ev) ==
    IF ~MergeRequestMatches(ev) THEN "ignore"
    ELSE IF SkipReviewLabelled(ev) THEN "skip"
    ELSE "act"

\* C21: an authenticated merge_request event goes on to push one Review
\* payload, answered with 202 queued once the push has succeeded, exactly when
\* it is opened or reopened, not a draft, not work in progress, its action is
\* open, update or reopen and it has no skip-review label; a non-matching
\* event is answered with 200 ignored and a matching one labelled skip-review
\* with 200 skipped, and neither touches the queue.
C21_MergeRequestQueuedIff ==
    /\ [](\A ev \in MergeRequestEvents : MergeRequestOutcome(ev) = ExpectedOutcome(ev))
    /\ [][\A w \in WebTasks :
        /\ Receive(w, MergeRequestRequest("ok", "act"))
                => /\ wpc'[w] = "push"
                   /\ wjob'[w].payload = ReviewJob
        /\ Receive(w, MergeRequestRequest("ok", "skip"))
                => /\ lastResp' = Resp(200, "skipped", {})
                   /\ UNCHANGED <<wpc, wjob, pending, nextId, processing, failed>>
        /\ Receive(w, MergeRequestRequest("ok", "ignore"))
                => /\ lastResp' = Resp(200, "ignored", {})
                   /\ UNCHANGED <<wpc, wjob, pending, nextId, processing, failed>>
        /\ (WebPushOk(w) /\ wjob[w].payload = ReviewJob)
                => /\ lastResp'.status = 202
                   /\ lastResp'.kind = "queued"
                   /\ Len(pending') = Len(pending) + 1
                   /\ ItemFromJson(pending'[Len(pending')]).payload = ReviewJob]_vars

\* A matching event has been queued and, after it, a draft has been ignored.
C21_Witness ==
    /\ Len(pending) = 1
    /\ ItemFromJson(pending[1]).payload = ReviewJob
    /\ lastResp = Resp(200, "ignored", {})

\* The triggering user is one of the configured authors.
Listed(user) ==
    \E i \in DOMAIN config.allowed_authors : EqIgnoreAsciiCase(config.allowed_authors[i], user)

FailedPipeline(r) ==
    r.kind = "pipeline" /\ r.auth = "ok" /\ r.body = "ok" /\ r.status = "failed"

\* Failed-pipeline webhooks that pass the token check and parse.
FailedPipelines == {req : req \in {r \in Requests : FailedPipeline(r)}}

RECURSIVE JsonContains(_, _), AnyContains(_, _)

\* Some string of the sequence of JSON values contains `pat`.
AnyContains(items, pat) ==
    IF items = <<>> THEN FALSE
    ELSE JsonContains(Head(items), pat) \/ AnyContains(Tail(items), pat)

\* Some string anywhere in the JSON value contains `pat`.
JsonContains(value, pat) ==
    CASE value[1] = "string" -> Contains(value[2], pat)
      [] value[1] = "object" -> \E k \in DOMAIN value[2] : JsonContains(value[2][k], pat)
      [] value[1] = "array" -> AnyContains(value[2], pat)
      [] OTHER -> FALSE

\* C23: mentions_bot returns true exactly when the text of the body (its
\* text leaves and mention attrs.text values put together) contains
\* @claude-agent in any letter case, or the bot account id occurs in a string
\* anywhere in the body JSON, be it only in a mention node's attrs.id.
C23_MentionDetection ==
    arg.fn = "mentions_bot"
        => (result.value
            <=> \/ Contains(TextToLowercase(ExtractTextFromAdf(arg.a)), BOT_MENTION)
                \/ JsonContains(arg.a, BOT_ACCOUNT_ID))

VerifyCalls ==
    {"github::verify_signature", "sentry::verify_signature", "jira::verify_signature"}

\* C24: for each of the three verify_signature functions, sha256= followed by
\* the hex HMAC of the body verifies, every string that differs from it in a
\* single byte does not, and no signature without the sha256= prefix does.
C24_HmacVerification ==
    arg.fn \in VerifyCalls
        => LET valid == ValidSignature(arg.a.secret, arg.a.body) IN
           /\ arg.a.signature = valid => result.value
           /\ arg.a.signature \in Perturbations(valid) => ~result.value
           /\ ~StripPrefix(arg.a.signature, Sha256Prefix).some => ~result.value


\* The fields a decoded Review has for the object `json`.
ReviewFields(json) ==
    [x \in {"mr_iid", "action"} |->
        IF x \in DOMAIN json THEN json[x] ELSE "open"]

\* What the object `json` decodes to, by its "type" field alone.
ExpectedEnvelope(json) ==
    IF "type" \in DOMAIN json
    THEN CASE json["type"] = "review" /\ "mr_iid" \in DOMAIN json ->
                [variant |-> "Review", fields |-> ReviewFields(json)]
           [] json["type"] = "sentry_fix" /\ "short_id" \in DOMAIN json ->
                [variant |-> "SentryFix", fields |-> [short_id |-> json["short_id"]]]
           [] json["type"] = "jira_ticket" /\ "issue_key" \in DOMAIN json ->
                [variant |-> "JiraTicket", fields |-> [issue_key |-> json["issue_key"]]]
           [] OTHER -> DecodeErr
    ELSE IF "mr_iid" \in DOMAIN json
    THEN [variant |-> "Review", fields |-> ReviewFields(json)]
    ELSE DecodeErr

\* C25: an object with a type field decodes to the variant that field names,
\* or fails, and is never given to the legacy parse; an object without a type
\* field decodes as a Review when it is Review-shaped; an envelope serialized
\* and decoded again is the same envelope.
C25_EnvelopeDecoding ==
    /\ arg.fn = "JobPayload::deserialize" => result.value = ExpectedEnvelope(arg.a)
    /\ arg.fn = "to_string/from_str" => result.value = arg.a

\* A Review-shaped object whose type names another variant has been refused.
C25_Witness ==
    /\ arg.fn = "JobPayload::deserialize"
    /\ "type" \in DOMAIN arg.a
    /\ arg.a["type"] = "sentry_fix"
    /\ "mr_iid" \in DOMAIN arg.a
    /\ result.value = DecodeErr


\* C27: list_failed(limit) returns the first min(limit, length) entries of the
\* failed list in list order, so at most limit of them, for every limit >= 0,
\* and leaves the failed list as it is.
C27_ListFailedLimit ==
    /\ [](arg.fn = "list_failed" /\ result.value.ok
            => /\ Len(result.value.items) <= arg.a.limit
               /\ result.value.items =
                    [i \in 1..(IF arg.a.limit < Len(failed) THEN arg.a.limit ELSE Len(failed)) |->
                        FailedFromJson(failed[i])])
    /\ [][\A limit \in 0..(MaxFailed + 1) :
            ListFailedOk(limit) \/ ListFailedErr(limit) => failed' = failed]_vars


\* C26: once stop() has been called, run returns, whether stop() came before
\* run() started, during the pop or during a wait; and it returns between two
\* iterations, with no popped item left unsettled in its hands.
C26_GracefulStop ==
    /\ stopped ~> pc = "returned"
    /\ [](pc = "returned" => cur = NoItem)

\* The workload of the current item can report succeeded > 0.
ReportsSucceeded ==
    /\ JobName(cur) \in DOMAIN jobs
    /\ \E status \in PollStatuses(jobs[JobName(cur)]) : status.some /\ status.v.succeeded > 0

\* The workload of the current item can report failed > 0.
ReportsFailed ==
    /\ JobName(cur) \in DOMAIN jobs
    /\ \E status \in PollStatuses(jobs[JobName(cur)]) : status.some /\ status.v.failed > 0

\* The server goes on running in this step.
NoCrash == pc' # "start"

\* C28: the wait ends towards mark_completed only on a workload that reports
\* succeeded > 0, and mark_completed(id) is what follows; it ends towards
\* mark_failed on failed > 0, on three not-found polls, or on the expiry of
\* the wait budget, then with the workload deleted or left as it was by a
\* delete that failed; a spawn error goes to mark_failed without any wait.
C28_SettledByOutcome ==
    [][NoCrash =>
        /\ pc' = "complete" /\ pc # "complete" => pc = "wait" /\ ~TimedOut /\ ReportsSucceeded
        /\ pc = "complete" /\ pc' # "complete"
            => /\ pc' = "check"
               /\ \/ processing' = HashDel(processing, cur.id)
                  \/ processing' = processing /\ cur.id \in orphaned'
        /\ pc = "wait" /\ ~TimedOut /\ pc' = "fail_hdel"
            => /\ errmsg' = "Job failed"
               /\ ReportsFailed \/ (JobName(cur) \notin DOMAIN jobs /\ nfc' >= NotFoundThreshold)
               /\ jobs' = jobs
        /\ pc = "wait" /\ TimedOut /\ pc' # pc
            => /\ pc' = "fail_hdel"
               /\ errmsg' = "Job failed"
               /\ jobs' \in {jobs, JobsWithout(jobs, JobName(cur))}
        /\ pc = "spawn" /\ pc' \notin {"spawn", "wait"}
            => pc' = "fail_hdel" /\ errmsg' = "Spawn error" /\ jobs' = jobs
        /\ pc \in {"fail_hdel", "fail_rpush"} /\ pc' # pc
            => \/ pc' = "fail_rpush" /\ processing' = HashDel(processing, cur.id)
               \/ pc' = "check" /\ processing' = processing
    ]_vars

\* The wait has ended on a workload that succeeded, mark_completed is next.
C28_Witness ==
    /\ pc = "complete"
    /\ ReportsSucceeded
    /\ cur.id \in DOMAIN processing

\* C29: wait_for_job gives a workload up as disappeared only on the third
\* not-found poll in a row: the first two not-found polls leave it waiting,
\* and a poll that is answered otherwise (the workload still running, another
\* error) restarts the count.
C29_ThreeConsecutiveNotFound ==
    [][NoCrash =>
        /\ pc = "wait" /\ ~TimedOut /\ pc' = "fail_hdel" /\ ~ReportsFailed
            => nfc' >= NotFoundThreshold
        /\ WaitNotFound /\ nfc < NotFoundThreshold - 1 => pc' = "wait"
        /\ WaitStillRunning \/ WaitGetErr => nfc' = 0
    ]_vars

\* C30: every wait ends, whatever the polls answer; once more than 900
\* seconds have elapsed no further poll is made: the wait asks for the
\* workload to be deleted and returns false, the item going to mark_failed,
\* also when the delete fails and the workload stays.
C30_WaitTerminates ==
    /\ pc = "wait" ~> pc # "wait"
    /\ [][pc = "wait" /\ TimedOut
            => IF pc' = pc
               THEN elapsed' = elapsed /\ nfc' = nfc
               ELSE /\ pc' = "fail_hdel"
                    /\ errmsg' = "Job failed"
                    /\ jobs' \in {jobs, JobsWithout(jobs, JobName(cur))}]_vars

\* The budget has run out, the delete has failed, the wait is over.
C30_Witness ==
    /\ pc = "fail_hdel"
    /\ TimedOut
    /\ JobName(cur) \in DOMAIN jobs


\* C31: while the scheduler runs, every item on the pending list is
\* eventually popped and brought to a settle call (after its workload was
\* created and waited for, or after the creation failed), and the settle call
\* settles it: mark_completed takes it out of the processing hash, mark_failed
\* appends it to the failed list.  No item before it in the queue and no
\* workload that failed or timed out holds it up for good.
C31_EveryItemSettled ==
    \A id \in 1..MaxRunItems :
        /\ id \in PendingIds(pending) ~> (cur.id = id /\ pc \in {"complete", "fail_hdel"})
        /\ (cur.id = id /\ pc = "complete") ~> (id \notin DOMAIN processing)
        /\ (cur.id = id /\ pc = "fail_hdel") ~> (id \in FailedIds(failed))

\* The answers to the requests sent, and the sleeps, in the order they came.
SendAnswers == SelectSeq(clog, LAMBDA x : x[1] = "send")
Sleeps == SelectSeq(clog, LAMBDA x : x[1] = "sleep")

\* The errors of the transport: a timeout, a connection that failed.
TransportError(answer) == answer[1] = "Err" /\ answer[2].cause \in {"timeout", "connect"}

\* C32: send_with_retry sends at most 4 requests and sleeps 1 s, 2 s and 4 s
\* before the second, third and fourth; it sleeps and sends again only after
\* a timeout or a connection error; an Ok answer of any HTTP status and any
\* other error is returned at once, with no request after it; what it returns
\* is the answer to the last request; and every call returns.
C32_SendWithRetry ==
    /\ [](/\ Len(SendAnswers) <= MAX_RETRIES + 1
          /\ \A k \in 1..Len(Sleeps) : k <= 3 /\ Sleeps[k][2] = <<1, 2, 4>>[k]
          /\ \A i \in 1..Len(clog) :
              /\ clog[i][1] = "sleep"
                  => i > 1 /\ clog[i - 1][1] = "send" /\ TransportError(clog[i - 1][2])
              /\ clog[i][1] = "send" /\ i > 1 => clog[i - 1][1] = "sleep"
              /\ clog[i][1] = "send" /\ ~TransportError(clog[i][2])
                  => i = Len(clog) /\ cpc \in {"returned", "done"}
          /\ cpc \in {"returned", "done"} => clog # <<>> /\ clog[Len(clog)] = <<"send", sent>>)
    /\ cpc = "send" ~> cpc = "returned"

\* The fourth request has timed out like the three before it, after sleeps
\* of 1, 2 and 4 seconds, and its error is returned.
C32_Witness ==
    /\ cpc = "returned"
    /\ Len(SendAnswers) = MAX_RETRIES + 1
    /\ Sleeps = <<<<"sleep", 1>>, <<"sleep", 2>>, <<"sleep", 4>>>>
    /\ sent[1] = "Err" /\ sent[2].cause = "timeout"

\* The index of the first entry of the failed list whose item has this id.
FirstMatch(fl, id) ==
    CHOOSE i \in 1..Len(fl) :
        /\ FailedFromJson(fl[i]).item.id = id
        /\ \A k \in 1..(i - 1) : FailedFromJson(fl[k]).item.id # id

WithoutIndex(list, i) ==
    [k \in 1..(Len(list) - 1) |-> IF k < i THEN list[k] ELSE list[k + 1]]

\* C33: a retry_failed that goes on to its LREM has found an entry with the
\* id in the failed list; the call that returns true has removed exactly one
\* entry of the failed list, the first with that id, and appends exactly one
\* item, that entry's, to pending, every other entry of pending, processing
\* and failed staying in place.
C33_RetryFrame ==
    [][\A h \in Handlers :
        LET id == FailedFromJson(hjson[h]).item.id IN
        /\ hpc[h] = "idle" /\ hpc'[h] = "lrem" => FailedFromJson(hjson'[h]).item.id \in FailedIds(failed)
        /\ RetryLremOk(h) /\ hremoved'[h] = 1
            => /\ failed' = WithoutIndex(failed, FirstMatch(failed, id))
               /\ pending' = pending /\ processing' = processing
        /\ RetryRpushOk(h)
            => /\ hremoved[h] = 1
               /\ pending' = Append(pending, ItemToJson(FailedFromJson(hjson[h]).item))
               /\ failed' = failed /\ processing' = processing]_vars

\* The worker has exited with a code other than 0.
WorkerFailed == wstep = "exited" /\ exit_code # 0

\* C34: a worker step that fails (the decoding of the payload, the clone, the
\* fetch, the diff, the fetch of the discussions, the agent) ends the worker
\* with a non-zero exit code; the agent is started only after clone, fetch
\* and diff have succeeded; the workload of a worker that exited non-zero
\* reports failed and never succeeded; and the scheduler's wait for it ends,
\* and ends in mark_failed for the item, never in mark_completed.
C34_FailurePropagates ==
    /\ [][/\ DecodePayloadStep /\ wstep' = "exited" => exit_code' # 0
          /\ StepErr \/ PromptErr \/ RunClaudeErr => wstep' = "exited" /\ exit_code' # 0
          /\ wstep' = "run_claude" => {"git_clone", "git_fetch", "get_diff"} \subseteq wdone'
          /\ WorkerFailed /\ pc = "wait" /\ pc' # "wait" => pc' = "fail_hdel" /\ cur' = cur
         ]_vars
    /\ [](WorkerFailed
            => /\ "run_claude" \notin wdone
               /\ \A n \in DOMAIN jobs :
                    \A status \in PollStatuses(jobs[n]) :
                        status.some /\ status.v.failed > 0 /\ status.v.succeeded = 0
               /\ pc # "complete")
    /\ (WorkerFailed /\ pc = "wait") ~> (pc = "fail_hdel")

\* The agent has exited non-zero, the workload reports failed, and the wait
\* has ended towards mark_failed.
C34_Witness ==
    /\ WorkerFailed
    /\ {"git_clone", "git_fetch", "get_diff", "prompt"} \subseteq wdone
    /\ pc = "fail_hdel"
    /\ errmsg = "Job failed"
    /\ JobName(cur) \in DOMAIN jobs /\ jobs[JobName(cur)] = "failed"

\* How many entries of pending carry this id.
PendingCount(pd, id) == Cardinality({i \in 1..Len(pd) : ItemFromJson(pd[i]).id = id})

\* C35: of the retry_failed calls that overlap on one failed entry at most
\* one returns true: the call that returns true re-queues an item that is at
\* that moment in none of pending, processing and failed and in no execution,
\* and no id is ever twice in pending.
C35_NoDuplicateRetry ==
    /\ [](\A id \in Ids : PendingCount(pending, id) <= 1)
    /\ [][\A h \in Handlers :
            RetryRpushOk(h)
                => LET id == FailedFromJson(hjson[h]).item.id IN
                   Places(pending, processing, failed, id) = 0 /\ cur.id # id]_vars

\* C36: a step of the scheduler that takes the head entry off pending has
\* it, decoded, in its hands as Some(item) and goes on to mark_processing;
\* and the task that runs the scheduler loop is never ended by an entry.
C36_PopKeepsEntry ==
    /\ [][pending # <<>> /\ pending' = Tail(pending)
            => /\ pc' = "mark"
               /\ cur'.id = Head(pending).id]_vars
    /\ [](pc # "panicked")

\* C37: the creation of the workload of an item that failed before and was
\* re-queued by retry_failed is never refused because a workload of its name,
\* that of its earlier execution, is still in the orchestrator.
C37_RetrySpawnsAgain ==
    [][pc = "spawn" /\ cur.attempts > 0 /\ JobName(cur) \in DOMAIN jobs
        => ~(pc' = "fail_hdel" /\ errmsg' = "Spawn error")]_vars

\* C38: when mark_failed returns the error of its RPUSH after its HDEL took
\* the item out of processing, or retry_failed returns the error of its RPUSH
\* after its LREM took the entry out of failed, the item is still in one of
\* pending, processing and failed.
C38_AllOrNothing ==
    [][/\ FailRpushErr => Places(pending', processing', failed', cur.id) >= 1
       /\ \A h \in Handlers :
            RetryRpushErr(h) /\ hremoved[h] = 1
                => Places(pending', processing', failed', FailedFromJson(hjson[h]).item.id) >= 1
      ]_vars

\* C39: with a healthy token endpoint and secret store no get_access_token
\* call returns an error, and once every call has returned after a refresh the
\* durable secret holds the refresh token the token endpoint accepts.
C39_HealthyNeverFails ==
    /\ \A c \in Callers : tres[c].error = "none"
    /\ (upstream.issued > 0 /\ \A c \in Callers : tpc[c] = "idle")
           => secret.refresh = upstream.valid
====
